---- MODULE Spec2Model ----
(***************************************************************************)
(* State-machine model of the perf-logger SDK core: the fixed-size         *)
(* RingBuffer (src/src/utils/RingBuffer.js), the EventBus                  *)
(* (src/unnamed/part_000), the BaselineManager (src/unnamed/part_003) and  *)
(* the detection strategies ZScoreStrategy                                 *)
(* (src/src/anamolies/strategies/ZScoreStrategy.js) and EMAStrategy        *)
(* (src/unnamed/part_002).  The Anomaly Engine, whose source is not part   *)
(* of the tree, is modelled from section 4.5 of the specification.         *)
(*                                                                         *)
(* JavaScript numbers are modelled as exact fractions where the code       *)
(* divides, and as integers elsewhere.  A square root is kept as the       *)
(* number it is the root of.                                               *)
(***************************************************************************)
EXTENDS Integers, Sequences, FiniteSets, TLC

VARIABLES
    ring,        \* the RingBuffer object under test: capacity, buffer, head, count
    pushed,      \* history variable: every item handed to ring.push, in call order
    _listeners,  \* EventBus._listeners: Map type -> Set of listeners, in insertion order
    _history,    \* EventBus._history: array of event envelopes
    stack,       \* JavaScript call stack of emit calls and listener invocations
    unsubs,      \* unsubscribe closures returned by on()/once() so far
    emitted,     \* history variable: every envelope built by emit, in call order
    reg,         \* history variable: per (type, listener) the on() calls since the last unsubscribe
    onceCalls,   \* history variable: per once() wrapper, how often it was invoked
    nCalls,      \* number of on/once/unsubscribe calls made so far
    nOnce,       \* number of once() calls made so far
    nEmit,       \* number of emit calls made so far in this behaviour
    _baselines,  \* BaselineManager._baselines: Map metric name -> BaselineData
    _minSamples, \* BaselineManager._minSamples
    storage,     \* the string last returned by serialize(), as kept by the host
    calls,       \* history variable: record() calls made per metric name
    restored,    \* history variable: metric names whose record restore() has written
    nRestore,    \* number of restore calls made so far
    lastCall,    \* history variable: the BaselineManager call made last
    samples,     \* history variable: every value handed to record(), per metric name
    fresh,       \* _baselines of a second, fresh BaselineManager with the same _minSamples
    freshFrom,   \* history variable: the string the fresh manager was restored from
    threshold,   \* ZScoreStrategy.threshold
    alpha,       \* EMAStrategy.alpha
    deviationThreshold,  \* EMAStrategy.deviationThreshold
    _emaValues,  \* EMAStrategy._emaValues: Map metric name -> current EMA
    verdict,     \* the value the last detect() call returned
    lastDetect,  \* history variable: the last detect() call and the baseline it got
    emaSeen,     \* history variable: metric names EMAStrategy.detect got a usable baseline for
    nDetect,     \* number of detect calls made so far
    active,      \* the strategy the Anomaly Engine is configured with
    host,        \* what the browser offers: performance.memory, measureUserAgentSpecificMemory, a navigation entry
    isRunning,   \* BaseCollector.isRunning, per collector
    live,        \* per event source, the timers, observers and patches of it the browser holds
    pending,     \* per event source, callbacks of it that wait for a message, a promise or a response
    afterStop,   \* history variable: per collector, events it published since stop() returned
    nStarts      \* number of start calls made so far

ringVars == <<ring, pushed>>
busVars  == <<_listeners, _history, stack, unsubs, emitted, reg, onceCalls,
              nCalls, nOnce, nEmit>>
mgrVars  == <<_baselines, _minSamples, storage, calls, restored, nRestore, lastCall,
              samples>>
freshVars == <<fresh, freshFrom>>
stratVars == <<threshold, alpha, deviationThreshold, _emaValues, verdict, lastDetect,
               emaSeen, nDetect, active>>
collVars == <<host, isRunning, live, pending, afterStop, nStarts>>
vars     == <<ringVars, busVars, mgrVars, freshVars, stratVars, collVars>>

(***************************************************************************)
(* Bounds of the model                                                     *)
(***************************************************************************)
MaxCapacity == 4       \* RingBuffer capacities explored: 1..MaxCapacity
MaxPushes   == 7       \* push calls per behaviour of the ring specification
Items       == 1..2    \* values pushed into the ring
MaxCalls    == 3       \* on/once/unsubscribe calls per behaviour of the bus
MaxEmits    == 3       \* emit calls per behaviour of the bus
MaxOnce     == 1       \* once() calls per behaviour of the bus
Types       == {"T1", "T2"}   \* event types
Funcs       == {"f", "g"}     \* listener functions written by bus users
MaxRecords  == 4       \* record calls per behaviour, any metrics and values
LongRun     == 31      \* record calls of a steady one-metric stream
MaxPrefix   == 2     \* record() calls before a stream settles on one value
MaxSamples  == 5     \* record() calls of a stream of varied values
MaxBaseline == 3     \* record() calls before and between detect() calls
MaxDetects  == 2     \* detect() calls per behaviour
MaxPairRecords == 4  \* record() calls on a pair of metrics under detection
MaxIngest   == 4     \* metric samples published to the Anomaly Engine
MaxReadRecords == 2    \* record calls per behaviour of a manager read between them
MaxMirrored == 4       \* record calls per behaviour of a manager and its restored copy
MaxStarts   == 2       \* start calls per behaviour of the collectors
MaxPublished == 2      \* events the collectors publish per behaviour
MaxRestores == 2       \* restore calls per behaviour
Metrics     == {"a", "b"}     \* metric names
Values      == {1, 3}         \* sample values
VariedValues == 1..5          \* sample values of a stream of varied values
BaselineValues == {90, 100, 110}    \* sample values of the metrics under detection
DetectValues == {100, 125, 126, 151, 200}   \* metric.value of the samples under detection
PairValues   == {90, 110}     \* sample values of a pair of metrics under detection
FarValues    == {150, 200}    \* metric.value of the samples put to a pair of metrics
EngineValues == {100, 200}    \* metric.value of the samples published to the engine
LearningPeriods == {0, 1, 2, 30}   \* learningPeriodSeconds
SampleRates     == {1, 2}          \* sampleRateHz

Min(a, b) == IF a <= b THEN a ELSE b

(***************************************************************************)
(* RingBuffer                                                              *)
(***************************************************************************)
\* A hole of `new Array(capacity)` reads as undefined; items are naturals.
Undefined == -1

\* new Array(n): a sparse array of length n with no elements.
NewArray(n) == [length |-> n, elems |-> [i \in {} |-> Undefined]]

\* arr[i]
ArrayGet(arr, i) == IF i \in DOMAIN arr.elems THEN arr.elems[i] ELSE Undefined

\* arr[i] = v; the length grows when i is at or past it.
ArraySet(arr, i, v) ==
    [length |-> IF i >= arr.length THEN i + 1 ELSE arr.length,
     elems  |-> [j \in (DOMAIN arr.elems) \cup {i} |->
                    IF j = i THEN v ELSE arr.elems[j]]]

RingBuffer_new(capacity) ==
    [capacity |-> capacity,
     buffer   |-> NewArray(capacity),
     head     |-> 0,
     count    |-> 0]

RingBuffer_push_countAlways(rb, item) ==
    [rb EXCEPT !.buffer = ArraySet(rb.buffer, rb.head, item),
               !.head   = (rb.head + 1) % rb.capacity,
               !.count  = rb.count + 1]

RingBuffer_push(rb, item) ==
    [rb EXCEPT !.buffer = ArraySet(rb.buffer, rb.head, item),
               !.head   = (rb.head + 1) % rb.capacity,
               !.count  = IF rb.count < rb.capacity THEN rb.count + 1 ELSE rb.count]

RingBuffer_toArray_fromZero(rb) ==
    IF rb.count = 0 THEN <<>>
    ELSE [i \in 1..rb.count |-> ArrayGet(rb.buffer, (i - 1) % rb.capacity)]

RingBuffer_toArray(rb) ==
    IF rb.count = 0 THEN <<>>
    ELSE LET start == IF rb.count < rb.capacity THEN 0 ELSE rb.head
         IN  [i \in 1..rb.count |->
                 ArrayGet(rb.buffer, (start + (i - 1)) % rb.capacity)]

RingBuffer_length(rb) == rb.count

RingBuffer_latest(rb) ==
    IF rb.count = 0 THEN Undefined
    ELSE ArrayGet(rb.buffer, (rb.head - 1 + rb.capacity) % rb.capacity)

\* The last k elements of sequence s (all of s when k >= Len(s)).
LastN(s, k) == SubSeq(s, Len(s) - Min(k, Len(s)) + 1, Len(s))

(***************************************************************************)
(* EventBus                                                                *)
(***************************************************************************)
_maxHistory == 1000

\* A listener function.  w = 0: the function f itself, as written by a bus
\* user.  w = k > 0: the arrow function created by the k-th once() call,
\* which calls unsub() and then f.
Fn(f)          == [w |-> 0, f |-> f]
OnceWrapper(k, f) == [w |-> k, f |-> f]
Listeners      == {Fn(f) : f \in Funcs} \cup
                  {OnceWrapper(k, f) : k \in 1..MaxOnce, f \in Funcs}
NoListener     == [w |-> 0, f |-> "-"]

\* The envelope built by emit.  timestamp stands for performance.now(): it is
\* the serial number of the emit call; the other fields do not influence
\* the bus.
Envelope(type, n) == [type |-> type, timestamp |-> n]

\* --- Set<Function> kept in insertion order ------------------------------
IndexOf(s, x) ==
    IF \E i \in 1..Len(s) : s[i] = x
    THEN CHOOSE i \in 1..Len(s) : s[i] = x /\ \A j \in 1..(i - 1) : s[j] # x
    ELSE 0

SetHas(s, x) == IndexOf(s, x) > 0

\* Set.prototype.add: appends x unless it is already an element.
SetAdd(s, x) == IF SetHas(s, x) THEN s ELSE Append(s, x)

\* Set.prototype.delete
SetDelete(s, x) ==
    LET i == IndexOf(s, x)
    IN  IF i = 0 THEN s ELSE SubSeq(s, 1, i - 1) \o SubSeq(s, i + 1, Len(s))

\* --- call stack -----------------------------------------------------------
\* An emit call that is iterating its listeners.  pos is the number of
\* entries of the Set the for-of iterator has already passed.  invoked,
\* threw and unsubbed are history fields: the listeners this call has
\* invoked so far (with the stamp of their registration), whether one of
\* them threw, and whether an unsubscribe closure for this type was invoked
\* while the call was in progress.
EmitFrame(type, n) ==
    [kind |-> "emit", type |-> type, event |-> n, pos |-> 0,
     fn |-> NoListener, stamp |-> 0,
     invoked |-> <<>>, threw |-> FALSE, unsubbed |-> FALSE]

\* A listener invocation listener(event); stamp is a history field: the
\* serial number of the on() call that subscribed it, 0 if none is in force.
ListenerFrame(type, n, l, st) ==
    [kind |-> "listener", type |-> type, event |-> n, pos |-> 0,
     fn |-> l, stamp |-> st,
     invoked |-> <<>>, threw |-> FALSE, unsubbed |-> FALSE]

Top == stack[Len(stack)]
Pop(stk) == SubSeq(stk, 1, Len(stk) - 1)

\* Code that may call into the bus is running: code outside the bus (empty
\* stack) or the body of a listener.
Running == IF stack = <<>> THEN TRUE ELSE Top.kind = "listener"

\* Deleting the entry at index i of the Set of `type` under the for-of
\* iterators of the emit calls in progress: an iterator that has passed
\* the entry has one entry fewer behind it.
IteratorsAfterDelete_keepPos(stk, type, i) == stk

IteratorsAfterDelete(stk, type, i) ==
    [k \in 1..Len(stk) |->
        IF stk[k].kind = "emit" /\ stk[k].type = type /\ i > 0 /\ stk[k].pos >= i
        THEN [stk[k] EXCEPT !.pos = @ - 1]
        ELSE stk[k]]

\* on(type, listener), lines 32-35: the Map after the call.
EventBus_on_push(ls, type, l) ==
    IF type \in DOMAIN ls
    THEN [ls EXCEPT ![type] = Append(@, l)]
    ELSE (type :> <<l>>) @@ ls

EventBus_on_unshift(ls, type, l) ==
    IF type \in DOMAIN ls
    THEN [ls EXCEPT ![type] = IF SetHas(@, l) THEN @ ELSE <<l>> \o @]
    ELSE (type :> <<l>>) @@ ls

EventBus_on(ls, type, l) ==
    IF type \in DOMAIN ls
    THEN [ls EXCEPT ![type] = SetAdd(@, l)]
    ELSE (type :> SetAdd(<<>>, l)) @@ ls

\* The closure returned by on(), line 37:
\*   () => this._listeners.get(type)?.delete(listener)
\* It changes the Map and, through the Set, the iterators on the stack.
EventBus_unsubscribe(ls, stk, type, l) ==
    IF type \in DOMAIN ls
    THEN [listeners |-> [ls EXCEPT ![type] = SetDelete(@, l)],
          stack     |-> IteratorsAfterDelete(stk, type, IndexOf(ls[type], l))]
    ELSE [listeners |-> ls, stack |-> stk]

\* The first statement of the wrapper once() registers, line 45: unsub().
EventBus_once_wrapperEntry_noUnsub(ls, stk, type, l) == [listeners |-> ls, stack |-> stk]

EventBus_once_wrapperEntry(ls, stk, type, l) == EventBus_unsubscribe(ls, stk, type, l)

\* emit, lines 68-71: push the envelope, shift once over _maxHistory.
EventBus_emit_history_noShift(h, event) == Append(h, event)

EventBus_emit_history_dropNewest(h, event) ==
    LET pushedH == Append(h, event)
    IN  IF Len(pushedH) > _maxHistory
        THEN SubSeq(pushedH, 1, Len(pushedH) - 1)
        ELSE pushedH

EventBus_emit_history(h, event) ==
    LET pushedH == Append(h, event)
    IN  IF Len(pushedH) > _maxHistory THEN Tail(pushedH) ELSE pushedH

\* emit, lines 76-79: a listener that throws is caught inside the loop, so
\* the stack is unwound to the emit call that invoked it and no further.
EventBus_emit_catch_rethrow(stk) ==
    IF Len(stk) >= 2 THEN SubSeq(stk, 1, Len(stk) - 2) ELSE <<>>

EventBus_emit_catch(stk) ==
    [Pop(stk) EXCEPT ![Len(stk) - 1].threw = TRUE]

(***************************************************************************)
(* Numbers.  A JavaScript number is modelled as the exact fraction         *)
(* [n, d] in lowest terms with d > 0; [1, 0] is Infinity and [-1, 0] is    *)
(* -Infinity.                                                              *)
(***************************************************************************)
Abs(i) == IF i < 0 THEN -i ELSE i
Sign(i) == IF i < 0 THEN -1 ELSE IF i > 0 THEN 1 ELSE 0

RECURSIVE Gcd(_, _)
Gcd(a, b) == IF b = 0 THEN a ELSE Gcd(b, a % b)

Num(n, d) ==
    IF d = 0 THEN [n |-> Sign(n), d |-> 0]
    ELSE LET g == Gcd(Abs(n), Abs(d))
         IN  [n |-> (Sign(d) * n) \div g, d |-> Abs(d) \div g]

FromInt(i)  == [n |-> i, d |-> 1]
Infinity    == [n |-> 1, d |-> 0]
NegInfinity == [n |-> -1, d |-> 0]

NumAdd(a, b) == Num(a.n * b.d + b.n * a.d, a.d * b.d)
NumSub(a, b) == Num(a.n * b.d - b.n * a.d, a.d * b.d)
NumMul(a, b) == Num(a.n * b.n, a.d * b.d)
NumDiv(a, b) == Num(a.n * b.d, a.d * b.n)
NumLess(a, b) == a.n * b.d < b.n * a.d
\* Math.min, Math.max
MathMin(a, b) == IF NumLess(b, a) THEN b ELSE a
MathMax(a, b) == IF NumLess(a, b) THEN b ELSE a

(***************************************************************************)
(* Map<string, BaselineData> in insertion order                            *)
(***************************************************************************)
NewMap == [keys |-> <<>>, data |-> [k \in {} |-> 0]]
MapHas(m, k) == k \in DOMAIN m.data
MapGet(m, k) == m.data[k]
MapSet(m, k, v) ==
    [keys |-> IF MapHas(m, k) THEN m.keys ELSE Append(m.keys, k),
     data |-> (k :> v) @@ m.data]

(***************************************************************************)
(* JSON text.  A string handed to JSON.parse is modelled by the value it   *)
(* spells and by whether it spells it completely: text cut short is        *)
(* rejected by JSON.parse with a SyntaxError.                              *)
(***************************************************************************)
JNull        == [t |-> "null"]
JObject(ent) == [t |-> "object", entries |-> ent]
JText(value)      == [wellFormed |-> TRUE,  value |-> value]
JTruncated(value) == [wellFormed |-> FALSE, value |-> value]

\* JSON.stringify of a number: Infinity and -Infinity are written as null.
JSON_number(x) == IF x.d = 0 THEN JNull ELSE x

JSON_parse(text) ==
    IF text.wellFormed THEN [threw |-> FALSE, value |-> text.value]
    ELSE [threw |-> TRUE, value |-> JNull]

(***************************************************************************)
(* BaselineManager                                                         *)
(***************************************************************************)
WindowCapacity == 500

NewBaselineData ==
    [values |-> RingBuffer_new(WindowCapacity),
     count  |-> 0,
     mean   |-> FromInt(0),
     m2     |-> FromInt(0),
     min    |-> Infinity,
     max    |-> NegInfinity]

\* constructor, line 17
BaselineManager_minSamples(learningPeriodSeconds, sampleRateHz) ==
    learningPeriodSeconds * sampleRateHz

\* record(metricName, value): the Map after the call
BaselineManager_record_recreate(bl, metricName, value) ==
    LET created == MapSet(bl, metricName, NewBaselineData)
        data   == MapGet(created, metricName)
        count  == data.count + 1
        delta  == NumSub(FromInt(value), data.mean)
        mean   == NumAdd(data.mean, NumDiv(delta, FromInt(count)))
        delta2 == NumSub(FromInt(value), mean)
    IN  MapSet(created, metricName,
               [values |-> RingBuffer_push(data.values, value),
                count  |-> count,
                mean   |-> mean,
                m2     |-> NumAdd(data.m2, NumMul(delta, delta2)),
                min    |-> MathMin(data.min, FromInt(value)),
                max    |-> MathMax(data.max, FromInt(value))])

BaselineManager_record_windowExtremes(bl, metricName, value) ==
    LET created == IF ~MapHas(bl, metricName)
                   THEN MapSet(bl, metricName, NewBaselineData)
                   ELSE bl
        data   == MapGet(created, metricName)
        count  == data.count + 1
        delta  == NumSub(FromInt(value), data.mean)
        mean   == NumAdd(data.mean, NumDiv(delta, FromInt(count)))
        delta2 == NumSub(FromInt(value), mean)
        window == RingBuffer_toArray(RingBuffer_push(data.values, value))
        kept   == {window[i] : i \in DOMAIN window}
    IN  MapSet(created, metricName,
               [values |-> RingBuffer_push(data.values, value),
                count  |-> count,
                mean   |-> mean,
                m2     |-> NumAdd(data.m2, NumMul(delta, delta2)),
                min    |-> FromInt(CHOOSE x \in kept : \A y \in kept : x <= y),
                max    |-> FromInt(CHOOSE x \in kept : \A y \in kept : x >= y)])

BaselineManager_record_staleDelta(bl, metricName, value) ==
    LET created == IF ~MapHas(bl, metricName)
                   THEN MapSet(bl, metricName, NewBaselineData)
                   ELSE bl
        data   == MapGet(created, metricName)
        count  == data.count + 1
        delta  == NumSub(FromInt(value), data.mean)
        mean   == NumAdd(data.mean, NumDiv(delta, FromInt(count)))
    IN  MapSet(created, metricName,
               [values |-> RingBuffer_push(data.values, value),
                count  |-> count,
                mean   |-> mean,
                m2     |-> NumAdd(data.m2, NumMul(delta, delta)),
                min    |-> MathMin(data.min, FromInt(value)),
                max    |-> MathMax(data.max, FromInt(value))])

BaselineManager_record_sharedWindow(bl, metricName, value) ==
    LET created == IF ~MapHas(bl, metricName)
                   THEN MapSet(bl, metricName, NewBaselineData)
                   ELSE bl
        data   == MapGet(created, metricName)
        count  == data.count + 1
        delta  == NumSub(FromInt(value), data.mean)
        mean   == NumAdd(data.mean, NumDiv(delta, FromInt(count)))
        delta2 == NumSub(FromInt(value), mean)
        after  == MapSet(created, metricName,
                         [values |-> RingBuffer_push(data.values, value),
                          count  |-> count,
                          mean   |-> mean,
                          m2     |-> NumAdd(data.m2, NumMul(delta, delta2)),
                          min    |-> MathMin(data.min, FromInt(value)),
                          max    |-> MathMax(data.max, FromInt(value))])
    IN  [keys |-> after.keys,
         data |-> [k \in DOMAIN after.data |->
                     IF k = metricName THEN after.data[k]
                     ELSE [after.data[k] EXCEPT
                              !.values = RingBuffer_push(@, value)]]]

BaselineManager_record(bl, metricName, value) ==
    LET created == IF ~MapHas(bl, metricName)
                   THEN MapSet(bl, metricName, NewBaselineData)
                   ELSE bl
        data   == MapGet(created, metricName)
        count  == data.count + 1
        delta  == NumSub(FromInt(value), data.mean)
        mean   == NumAdd(data.mean, NumDiv(delta, FromInt(count)))
        delta2 == NumSub(FromInt(value), mean)
    IN  MapSet(created, metricName,
               [values |-> RingBuffer_push(data.values, value),
                count  |-> count,
                mean   |-> mean,
                m2     |-> NumAdd(data.m2, NumMul(delta, delta2)),
                min    |-> MathMin(data.min, FromInt(value)),
                max    |-> MathMax(data.max, FromInt(value))])

\* isReady(metricName): (data?.count ?? 0) >= this._minSamples
BaselineManager_isReady_strict(bl, minSamples, metricName) ==
    (IF MapHas(bl, metricName) THEN MapGet(bl, metricName).count ELSE 0) > minSamples

BaselineManager_isReady_offByOne(bl, minSamples, metricName) ==
    (IF MapHas(bl, metricName) THEN MapGet(bl, metricName).count ELSE 0) >= minSamples - 1

BaselineManager_isReady(bl, minSamples, metricName) ==
    (IF MapHas(bl, metricName) THEN MapGet(bl, metricName).count ELSE 0) >= minSamples

\* Array.prototype.sort((a, b) => a - b) on numbers: the elements of s in
\* ascending order, each as many times as it is in s.  SortedRuns puts the
\* least of the values `vals` first, as often as s holds it, and the
\* others after it.
RECURSIVE SortedRuns(_, _)
SortedRuns(s, vals) ==
    IF vals = {} THEN <<>>
    ELSE LET least == CHOOSE v \in vals : \A u \in vals : v <= u
             times == Cardinality({j \in DOMAIN s : s[j] = least})
         IN  [i \in 1..times |-> least] \o SortedRuns(s, vals \ {least})

SortAscending(s) == SortedRuns(s, {s[j] : j \in DOMAIN s})

\* sorted[Math.floor(n * p / 100)] ?? 0  for the percentile fraction p/100.
\* The code multiplies n by the double 0.5, 0.9, 0.95 or 0.99; for every n
\* up to the window capacity the floor of that product is the floor of the
\* exact n * p / 100.
Percentile_noFallback(sorted, p) ==
    LET idx == (Len(sorted) * p) \div 100
    IN  IF idx + 1 \in DOMAIN sorted THEN FromInt(sorted[idx + 1]) ELSE FromInt(Undefined)

Percentile_roundedUp(sorted, p) ==
    LET idx == (Len(sorted) * p + 99) \div 100
    IN  IF idx + 1 \in DOMAIN sorted THEN FromInt(sorted[idx + 1]) ELSE FromInt(0)

Percentile(sorted, p) ==
    LET idx == (Len(sorted) * p) \div 100
    IN  IF idx + 1 \in DOMAIN sorted THEN FromInt(sorted[idx + 1]) ELSE FromInt(0)

\* getBaseline(metricName).  stdDev is Math.sqrt(variance); it is kept as
\* the number whose square is `variance`.
BaselineManager_getBaseline(bl, minSamples, metricName) ==
    IF ~MapHas(bl, metricName) \/ ~BaselineManager_isReady(bl, minSamples, metricName)
    THEN [isNull |-> TRUE]
    ELSE LET data     == MapGet(bl, metricName)
             variance == IF data.count > 1
                         THEN NumDiv(data.m2, FromInt(data.count - 1))
                         ELSE FromInt(0)
             sorted   == SortAscending(RingBuffer_toArray(data.values))
         IN  [isNull      |-> FALSE,
              mean        |-> data.mean,
              stdDev      |-> [sqrtOf |-> variance],
              variance    |-> variance,
              min         |-> data.min,
              max         |-> data.max,
              p50         |-> Percentile(sorted, 50),
              p90         |-> Percentile(sorted, 90),
              p95         |-> Percentile(sorted, 95),
              p99         |-> Percentile(sorted, 99),
              sampleCount |-> data.count]

\* getValues(metricName)
BaselineManager_getValues(bl, metricName) ==
    IF MapHas(bl, metricName)
    THEN RingBuffer_toArray(MapGet(bl, metricName).values)
    ELSE <<>>

\* The Map after isReady, getBaseline, getValues or serialize has returned.
\* isReady (lines 53-56), getValues (89-91) and serialize (96-108) assign to
\* locals only.  getBaseline sorts in place, line 69, the array toArray()
\* returned, which RingBuffer.toArray builds anew on every call: the
\* record's ring buffer is not that array.
RECURSIVE PushAll(_, _)
PushAll(rb, items) ==
    IF items = <<>> THEN rb
    ELSE PushAll(RingBuffer_push(rb, Head(items)), Tail(items))

BaselineManager_afterRead_sortsWindow(bl, op, metricName) ==
    IF op = "getBaseline" /\ MapHas(bl, metricName)
    THEN LET data == MapGet(bl, metricName)
         IN  MapSet(bl, metricName,
                    [data EXCEPT !.values =
                        PushAll(RingBuffer_new(WindowCapacity),
                                SortAscending(RingBuffer_toArray(data.values)))])
    ELSE bl

BaselineManager_afterRead(bl, op, metricName) == bl

\* serialize(): the JSON text of { name: {count, mean, m2, min, max}, ... }
BaselineManager_serialize_m2FromMean(bl) ==
    JText(JObject([i \in 1..Len(bl.keys) |->
        [name  |-> bl.keys[i],
         saved |-> [t     |-> "object",
                    count |-> JSON_number(FromInt(MapGet(bl, bl.keys[i]).count)),
                    mean  |-> JSON_number(MapGet(bl, bl.keys[i]).mean),
                    m2    |-> JSON_number(MapGet(bl, bl.keys[i]).mean),
                    min   |-> JSON_number(MapGet(bl, bl.keys[i]).min),
                    max   |-> JSON_number(MapGet(bl, bl.keys[i]).max)]]]))

BaselineManager_serialize(bl) ==
    JText(JObject([i \in 1..Len(bl.keys) |->
        [name  |-> bl.keys[i],
         saved |-> [t     |-> "object",
                    count |-> JSON_number(FromInt(MapGet(bl, bl.keys[i]).count)),
                    mean  |-> JSON_number(MapGet(bl, bl.keys[i]).mean),
                    m2    |-> JSON_number(MapGet(bl, bl.keys[i]).m2),
                    min   |-> JSON_number(MapGet(bl, bl.keys[i]).min),
                    max   |-> JSON_number(MapGet(bl, bl.keys[i]).max)]]]))

\* restore, lines 116-125: the loop over Object.entries(parsed).  Reading a
\* property of a null entry throws a TypeError, which ends the loop with the
\* entries before it already stored.
RECURSIVE RestoreEntries(_, _)
RestoreEntries(bl, entries) ==
    IF entries = <<>> THEN bl
    ELSE LET e == Head(entries)
         IN  IF e.saved.t = "null" THEN bl
             ELSE RestoreEntries(
                    MapSet(bl, e.name,
                           [values |-> RingBuffer_new(WindowCapacity),
                            count  |-> e.saved.count.n,
                            mean   |-> e.saved.mean,
                            m2     |-> e.saved.m2,
                            min    |-> e.saved.min,
                            max    |-> e.saved.max]),
                    Tail(entries))

\* restore(json): the Map after the call.  A SyntaxError of JSON.parse and a
\* TypeError of Object.entries(null) are swallowed by the empty catch.
BaselineManager_restore_startFresh(bl, json) ==
    LET parsed == JSON_parse(json)
    IN  IF parsed.threw THEN NewMap
        ELSE IF parsed.value.t = "null" THEN bl
        ELSE RestoreEntries(bl, parsed.value.entries)

BaselineManager_restore(bl, json) ==
    LET parsed == JSON_parse(json)
    IN  IF parsed.threw THEN bl
        ELSE IF parsed.value.t = "null" THEN bl
        ELSE RestoreEntries(bl, parsed.value.entries)

(***************************************************************************)
(* ZScoreStrategy and EMAStrategy.  base.stdDev is Math.sqrt(variance); a  *)
(* number divided by it is kept as [num, sqrtOf]: num / sqrt(sqrtOf).      *)
(***************************************************************************)
NoVerdict == [isNull |-> TRUE]     \* detect() returned null

Square(a) == NumMul(a, a)

\* Math.abs of a number
Math_abs(a) == Num(Abs(a.n), a.d)

\* base.stdDev === 0
StdDevIsZero(base) == base.stdDev.sqrtOf = FromInt(0)

\* a / base.stdDev, for a stdDev other than 0
DivByStdDev(a, base) == [num |-> a, sqrtOf |-> base.stdDev.sqrtOf]

\* Math.abs of such a quotient
Math_absQ(q) == [q EXCEPT !.num = Math_abs(q.num)]

\* q > t for a quotient q = num / sqrt(sqrtOf) and a number t
QuotientGreater(q, t) ==
    IF q.num.n >= 0
    THEN IF t.n < 0 THEN TRUE
         ELSE NumLess(NumMul(Square(t), q.sqrtOf), Square(q.num))
    ELSE IF t.n >= 0 THEN FALSE
         ELSE NumLess(Square(q.num), NumMul(Square(t), q.sqrtOf))

\* q / t for a number t
QuotientDiv(q, t) == [q EXCEPT !.num = NumDiv(@, t)]

\* q >= t
QuotientAtLeast(q, t) ==
    \/ QuotientGreater(q, t)
    \/ /\ Sign(q.num.n) = Sign(t.n)
       /\ Square(q.num) = NumMul(Square(t), q.sqrtOf)

\* Math.min(1, q): 1 is kept as 1 / sqrt(1)
One == [num |-> FromInt(1), sqrtOf |-> FromInt(1)]
Math_minQ(q) == IF QuotientAtLeast(q, FromInt(1)) THEN One ELSE q

\* ZScoreStrategy.detect(metric, baseline): the returned verdict
ZScoreStrategy_detect_inclusive(zThreshold, metric, bl, minSamples) ==
    LET base == BaselineManager_getBaseline(bl, minSamples, metric.name)
    IN  IF base.isNull THEN NoVerdict
        ELSE IF StdDevIsZero(base) THEN NoVerdict
        ELSE LET zScore == DivByStdDev(NumSub(FromInt(metric.value), base.mean), base)
             IN  IF ~QuotientAtLeast(Math_absQ(zScore), zThreshold) THEN NoVerdict
                 ELSE [isNull   |-> FALSE,
                       type     |-> "spike",
                       severity |-> IF QuotientGreater(Math_absQ(zScore),
                                                       NumMul(zThreshold, FromInt(2)))
                                    THEN "critical" ELSE "warning",
                       metric   |-> metric,
                       score    |-> Math_minQ(QuotientDiv(Math_absQ(zScore),
                                                         NumMul(zThreshold, FromInt(2))))]

ZScoreStrategy_detect_noZeroGuard(zThreshold, metric, bl, minSamples) ==
    LET base == BaselineManager_getBaseline(bl, minSamples, metric.name)
    IN  IF base.isNull THEN NoVerdict
        ELSE LET zScore == DivByStdDev(NumSub(FromInt(metric.value), base.mean), base)
             IN  IF ~QuotientGreater(Math_absQ(zScore), zThreshold) THEN NoVerdict
                 ELSE [isNull   |-> FALSE,
                       type     |-> "spike",
                       severity |-> IF QuotientGreater(Math_absQ(zScore),
                                                       NumMul(zThreshold, FromInt(2)))
                                    THEN "critical" ELSE "warning",
                       metric   |-> metric,
                       score    |-> Math_minQ(QuotientDiv(Math_absQ(zScore),
                                                         NumMul(zThreshold, FromInt(2))))]

ZScoreStrategy_detect_uncappedScore(zThreshold, metric, bl, minSamples) ==
    LET base == BaselineManager_getBaseline(bl, minSamples, metric.name)
    IN  IF base.isNull THEN NoVerdict
        ELSE IF StdDevIsZero(base) THEN NoVerdict
        ELSE LET zScore == DivByStdDev(NumSub(FromInt(metric.value), base.mean), base)
             IN  IF ~QuotientGreater(Math_absQ(zScore), zThreshold) THEN NoVerdict
                 ELSE [isNull   |-> FALSE,
                       type     |-> "spike",
                       severity |-> IF QuotientGreater(Math_absQ(zScore),
                                                       NumMul(zThreshold, FromInt(2)))
                                    THEN "critical" ELSE "warning",
                       metric   |-> metric,
                       score    |-> QuotientDiv(Math_absQ(zScore),
                                                         NumMul(zThreshold, FromInt(2)))]

ZScoreStrategy_detect(zThreshold, metric, bl, minSamples) ==
    LET base == BaselineManager_getBaseline(bl, minSamples, metric.name)
    IN  IF base.isNull THEN NoVerdict
        ELSE IF StdDevIsZero(base) THEN NoVerdict
        ELSE LET zScore == DivByStdDev(NumSub(FromInt(metric.value), base.mean), base)
             IN  IF ~QuotientGreater(Math_absQ(zScore), zThreshold) THEN NoVerdict
                 ELSE [isNull   |-> FALSE,
                       type     |-> "spike",
                       severity |-> IF QuotientGreater(Math_absQ(zScore),
                                                       NumMul(zThreshold, FromInt(2)))
                                    THEN "critical" ELSE "warning",
                       metric   |-> metric,
                       score    |-> Math_minQ(QuotientDiv(Math_absQ(zScore),
                                                         NumMul(zThreshold, FromInt(2))))]

\* The verdict EMAStrategy.detect returns for a new EMA, lines 42-63
EMAStrategy_verdict_criticalInclusive(dThreshold, newEma, metric, base) ==
    LET deviation           == Math_abs(NumSub(FromInt(metric.value), newEma))
        normalizedDeviation == DivByStdDev(deviation, base)
    IN  IF ~QuotientGreater(normalizedDeviation, dThreshold) THEN NoVerdict
        ELSE [isNull   |-> FALSE,
              type     |-> "drift",
              severity |-> IF QuotientAtLeast(normalizedDeviation,
                                              NumMul(dThreshold, FromInt(2)))
                           THEN "critical" ELSE "warning",
              metric   |-> metric,
              score    |-> Math_minQ(QuotientDiv(normalizedDeviation,
                                                NumMul(dThreshold, FromInt(2))))]

EMAStrategy_verdict(dThreshold, newEma, metric, base) ==
    LET deviation           == Math_abs(NumSub(FromInt(metric.value), newEma))
        normalizedDeviation == DivByStdDev(deviation, base)
    IN  IF ~QuotientGreater(normalizedDeviation, dThreshold) THEN NoVerdict
        ELSE [isNull   |-> FALSE,
              type     |-> "drift",
              severity |-> IF QuotientGreater(normalizedDeviation,
                                              NumMul(dThreshold, FromInt(2)))
                           THEN "critical" ELSE "warning",
              metric   |-> metric,
              score    |-> Math_minQ(QuotientDiv(normalizedDeviation,
                                                NumMul(dThreshold, FromInt(2))))]

\* alpha * metric.value + (1 - alpha) * prevEma
EMAStrategy_newEma(a, metric, prevEma) ==
    NumAdd(NumMul(a, FromInt(metric.value)), NumMul(NumSub(FromInt(1), a), prevEma))

\* EMAStrategy.detect(metric, baseline): the returned verdict and the
\* _emaValues Map after the call
EMAStrategy_detect_seedFromValue(a, dThreshold, emaValues, metric, bl, minSamples) ==
    LET base == BaselineManager_getBaseline(bl, minSamples, metric.name)
    IN  IF base.isNull THEN [returned |-> NoVerdict, _emaValues |-> emaValues]
        ELSE IF StdDevIsZero(base) THEN [returned |-> NoVerdict, _emaValues |-> emaValues]
        ELSE LET prevEma == IF MapHas(emaValues, metric.name)
                            THEN MapGet(emaValues, metric.name)
                            ELSE FromInt(metric.value)
                 newEma  == EMAStrategy_newEma(a, metric, prevEma)
             IN  [returned   |-> EMAStrategy_verdict(dThreshold, newEma, metric, base),
                  _emaValues |-> MapSet(emaValues, metric.name, newEma)]

EMAStrategy_detect_updateFirst(a, dThreshold, emaValues, metric, bl, minSamples) ==
    LET base == BaselineManager_getBaseline(bl, minSamples, metric.name)
    IN  IF base.isNull THEN [returned |-> NoVerdict, _emaValues |-> emaValues]
        ELSE LET prevEma == IF MapHas(emaValues, metric.name)
                            THEN MapGet(emaValues, metric.name)
                            ELSE base.mean
                 newEma  == EMAStrategy_newEma(a, metric, prevEma)
             IN  IF StdDevIsZero(base)
                 THEN [returned   |-> NoVerdict,
                       _emaValues |-> MapSet(emaValues, metric.name, newEma)]
                 ELSE [returned   |-> EMAStrategy_verdict(dThreshold, newEma, metric, base),
                       _emaValues |-> MapSet(emaValues, metric.name, newEma)]

EMAStrategy_detect(a, dThreshold, emaValues, metric, bl, minSamples) ==
    LET base == BaselineManager_getBaseline(bl, minSamples, metric.name)
    IN  IF base.isNull THEN [returned |-> NoVerdict, _emaValues |-> emaValues]
        ELSE IF StdDevIsZero(base) THEN [returned |-> NoVerdict, _emaValues |-> emaValues]
        ELSE LET prevEma == IF MapHas(emaValues, metric.name)
                            THEN MapGet(emaValues, metric.name)
                            ELSE base.mean
                 newEma  == EMAStrategy_newEma(a, metric, prevEma)
             IN  [returned   |-> EMAStrategy_verdict(dThreshold, newEma, metric, base),
                  _emaValues |-> MapSet(emaValues, metric.name, newEma)]

(***************************************************************************)
(* EventBus: state after construction and operations                       *)
(***************************************************************************)
NotRegistered == [calls |-> 0, stamp |-> 0]

MarkUnsubbed(stk, type) ==
    [k \in 1..Len(stk) |->
        IF stk[k].kind = "emit" /\ stk[k].type = type
        THEN [stk[k] EXCEPT !.unsubbed = TRUE]
        ELSE stk[k]]

\* The bus after `pre` emit calls of type T1 made while nothing was
\* subscribed; pre = 0 is the bus as constructed.
BusAfter(pre) ==
    /\ _listeners = [t \in {} |-> <<>>]
    /\ _history   = [i \in 1..pre |-> Envelope("T1", i)]
    /\ emitted    = [i \in 1..pre |-> Envelope("T1", i)]
    /\ stack      = <<>>
    /\ unsubs     = {}
    /\ reg        = [p \in Types \X Listeners |-> NotRegistered]
    /\ onceCalls  = [k \in 1..MaxOnce |-> 0]
    /\ nCalls     = 0
    /\ nOnce      = 0
    /\ nEmit      = 0

\* The bus after on("T1", f), on("T1", g) and emit("T1"), at the point
\* where f, the first listener invoked, has made `pre` emit calls of type
\* T2, to which nothing is subscribed, and is still running.
BusInListenerAfter(pre) ==
    /\ _listeners = [t \in {"T1"} |-> <<Fn("f"), Fn("g")>>]
    /\ emitted    = [i \in 1..(pre + 1) |->
                        IF i = 1 THEN Envelope("T1", 1) ELSE Envelope("T2", i)]
    /\ _history   = [i \in 1..(pre + 1) |->
                        IF i = 1 THEN Envelope("T1", 1) ELSE Envelope("T2", i)]
    /\ stack      = << [EmitFrame("T1", 1) EXCEPT
                            !.pos = 1,
                            !.invoked = <<[fn |-> Fn("f"), stamp |-> 1]>>],
                       ListenerFrame("T1", 1, Fn("f"), 1) >>
    /\ unsubs     = {[type |-> "T1", fn |-> Fn("f"), id |-> 1],
                     [type |-> "T1", fn |-> Fn("g"), id |-> 2]}
    /\ reg        = [p \in Types \X Listeners |->
                        IF p = <<"T1", Fn("f")>> THEN [calls |-> 1, stamp |-> 1]
                        ELSE IF p = <<"T1", Fn("g")>> THEN [calls |-> 1, stamp |-> 2]
                        ELSE NotRegistered]
    /\ onceCalls  = [k \in 1..MaxOnce |-> 0]
    /\ nCalls     = 2
    /\ nOnce      = 0
    /\ nEmit      = 0

\* on(type, listener) called by running code with one of its own functions.
On(type, f) ==
    /\ Running
    /\ nCalls < MaxCalls
    /\ LET l == Fn(f)
       IN  /\ _listeners' = EventBus_on(_listeners, type, l)
           /\ unsubs' = unsubs \cup {[type |-> type, fn |-> l, id |-> nCalls + 1]}
           /\ reg' = [reg EXCEPT ![<<type, l>>] =
                         IF @.calls = 0
                         THEN [calls |-> 1, stamp |-> nCalls + 1]
                         ELSE [@ EXCEPT !.calls = @ + 1]]
    /\ nCalls' = nCalls + 1
    /\ UNCHANGED <<_history, stack, emitted, onceCalls, nOnce, nEmit>>

\* once(type, listener): on(type, wrapper) with a fresh wrapper; the
\* closure returned is the one on() returned for the wrapper.
Once(type, f) ==
    /\ Running
    /\ nCalls < MaxCalls
    /\ nOnce < MaxOnce
    /\ LET l == OnceWrapper(nOnce + 1, f)
       IN  /\ _listeners' = EventBus_on(_listeners, type, l)
           /\ unsubs' = unsubs \cup {[type |-> type, fn |-> l, id |-> nCalls + 1]}
           /\ reg' = [reg EXCEPT ![<<type, l>>] = [calls |-> 1, stamp |-> nCalls + 1]]
    /\ nCalls' = nCalls + 1
    /\ nOnce'  = nOnce + 1
    /\ UNCHANGED <<_history, stack, emitted, onceCalls, nEmit>>

\* Running code invokes an unsubscribe closure it was handed.
Unsubscribe(cap) ==
    /\ Running
    /\ nCalls < MaxCalls
    /\ cap \in unsubs
    /\ LET r == EventBus_unsubscribe(_listeners, stack, cap.type, cap.fn)
       IN  /\ _listeners' = r.listeners
           /\ stack' = MarkUnsubbed(r.stack, cap.type)
    /\ reg' = [reg EXCEPT ![<<cap.type, cap.fn>>] = NotRegistered]
    /\ nCalls' = nCalls + 1
    /\ UNCHANGED <<_history, unsubs, emitted, onceCalls, nOnce, nEmit>>

\* emit(type, source, payload), lines 57-74: build the envelope, record it
\* in the history, fetch the Set of the type and start iterating it.  The
\* reads that fill the envelope (performance.now, Date.now, _getSessionId,
\* window.location) are taken to return.
Emit(type) ==
    /\ Running
    /\ nEmit < MaxEmits
    /\ LET n  == Len(emitted) + 1
           ev == Envelope(type, n)
       IN  /\ _history' = EventBus_emit_history(_history, ev)
           /\ emitted'  = Append(emitted, ev)
           /\ stack'    = IF type \in DOMAIN _listeners
                          THEN Append(stack, EmitFrame(type, n))
                          ELSE stack
    /\ nEmit' = nEmit + 1
    /\ UNCHANGED <<_listeners, unsubs, reg, onceCalls, nCalls, nOnce>>

\* emit, lines 75-77: the iterator yields the next listener and emit calls
\* it.  A once() wrapper runs its first statement, unsub(), before the
\* body of the wrapped function starts.
Dispatch ==
    /\ stack # <<>>
    /\ Top.kind = "emit"
    /\ Top.pos < Len(_listeners[Top.type])
    /\ LET type == Top.type
           l    == _listeners[type][Top.pos + 1]
           st   == IF reg[<<type, l>>].calls > 0 THEN reg[<<type, l>>].stamp ELSE 0
           stk1 == [stack EXCEPT ![Len(stack)].pos = @ + 1,
                                 ![Len(stack)].invoked =
                                     Append(@, [fn |-> l, stamp |-> st])]
           r    == IF l.w > 0
                   THEN EventBus_once_wrapperEntry(_listeners, stk1, type, l)
                   ELSE [listeners |-> _listeners, stack |-> stk1]
       IN  /\ _listeners' = r.listeners
           /\ stack' = Append(IF l.w > 0 THEN MarkUnsubbed(r.stack, type) ELSE r.stack,
                              ListenerFrame(type, Top.event, l, st))
           /\ onceCalls' = IF l.w > 0
                           THEN [onceCalls EXCEPT ![l.w] = @ + 1]
                           ELSE onceCalls
           /\ reg' = IF l.w > 0
                     THEN [reg EXCEPT ![<<type, l>>] = NotRegistered]
                     ELSE reg
    /\ UNCHANGED <<_history, unsubs, emitted, nCalls, nOnce, nEmit>>

\* emit: the iterator is exhausted, the loop ends and emit returns.
EmitReturn ==
    /\ stack # <<>>
    /\ Top.kind = "emit"
    /\ Top.pos >= Len(_listeners[Top.type])
    /\ stack' = Pop(stack)
    /\ UNCHANGED <<_listeners, _history, unsubs, emitted, reg, onceCalls,
                   nCalls, nOnce, nEmit>>

\* The listener on top of the stack returns to the loop of its emit.
ListenerReturn ==
    /\ stack # <<>>
    /\ Top.kind = "listener"
    /\ stack' = Pop(stack)
    /\ UNCHANGED <<_listeners, _history, unsubs, emitted, reg, onceCalls,
                   nCalls, nOnce, nEmit>>

\* The listener on top of the stack throws.
ListenerThrow ==
    /\ stack # <<>>
    /\ Top.kind = "listener"
    /\ stack' = EventBus_emit_catch(stack)
    /\ UNCHANGED <<_listeners, _history, unsubs, emitted, reg, onceCalls,
                   nCalls, nOnce, nEmit>>


(***************************************************************************)
(* BaselineManager: state after construction and operations                *)
(***************************************************************************)
NoText == JTruncated(JNull)

RECURSIVE SumOver(_, _)
SumOver(f, S) ==
    IF S = {} THEN 0
    ELSE LET x == CHOOSE y \in S : TRUE IN f[x] + SumOver(f, S \ {x})

ManagerNew(learningPeriodSeconds, sampleRateHz) ==
    /\ _baselines  = NewMap
    /\ _minSamples = BaselineManager_minSamples(learningPeriodSeconds, sampleRateHz)
    /\ storage     = <<>>
    /\ calls       = [name \in Metrics |-> 0]
    /\ restored    = {}
    /\ nRestore    = 0
    /\ lastCall    = [op |-> "new", json |-> NoText]
    /\ samples     = [name \in Metrics |-> <<>>]
    /\ fresh       = NewMap
    /\ freshFrom   = <<>>

\* The samples explored: every stream of at most MaxRecords samples, and a
\* steady stream (one metric, one value, never restored) of up to LongRun.
WithinRecordBound(name, value) ==
    \/ SumOver(calls, Metrics) < MaxRecords
    \/ /\ nRestore = 0
       /\ calls[name] < LongRun
       /\ \A other \in Metrics \ {name} : calls[other] = 0
       /\ \A i \in DOMAIN BaselineManager_getValues(_baselines, name) :
             BaselineManager_getValues(_baselines, name)[i] = value

\* record(name, value) on the manager
RecordCall(name, value) ==
    /\ _baselines' = BaselineManager_record(_baselines, name, value)
    /\ calls'      = [calls EXCEPT ![name] = @ + 1]
    /\ samples'    = [samples EXCEPT ![name] = Append(@, value)]
    /\ lastCall'   = [op |-> "record", json |-> NoText]
    /\ UNCHANGED <<_minSamples, storage, restored, nRestore>>

Record(name, value) ==
    /\ WithinRecordBound(name, value)
    /\ RecordCall(name, value)

\* The host calls serialize() and keeps the string.
Serialize ==
    /\ storage'  = <<BaselineManager_serialize(_baselines)>>
    /\ lastCall' = [op |-> "serialize", json |-> NoText]
    /\ _baselines' = BaselineManager_afterRead(_baselines, "serialize", "")
    /\ UNCHANGED <<_minSamples, calls, restored, nRestore, samples>>

\* The strings the host may hand to restore(): the stored string, the stored
\* string cut short, the stored string with one entry overwritten by null,
\* the text "null", and text that is not JSON at all.
WithNullEntry(text, i) ==
    JText(JObject([text.value.entries EXCEPT ![i].saved = JNull]))

Payloads ==
    {JTruncated(JObject(<<>>)), JText(JNull)} \cup
    (IF storage = <<>> THEN {}
     ELSE {storage[1], JTruncated(storage[1].value)} \cup
          {WithNullEntry(storage[1], i) : i \in 1..Len(storage[1].value.entries)})

Restore(json) ==
    /\ nRestore < MaxRestores
    /\ _baselines' = BaselineManager_restore(_baselines, json)
    /\ restored'   = restored \cup
                        {name \in Metrics :
                            MapHas(_baselines', name) /\
                            (~MapHas(_baselines, name) \/
                             MapGet(_baselines', name) # MapGet(_baselines, name))}
    /\ nRestore'   = nRestore + 1
    /\ lastCall'   = [op |-> "restore", json |-> json]
    /\ UNCHANGED <<_minSamples, storage, calls, samples>>

\* The samples explored past the retained window: every stream of at most
\* MaxPrefix samples, continued on its busiest metric by repeats of that
\* metric's latest value until the window is full, and then by any values
\* that overwrite its oldest entries.
WithinWindowBound(name, value) ==
    \/ SumOver(calls, Metrics) < MaxPrefix
    \/ /\ calls[name] < WindowCapacity + MaxPrefix
       /\ samples[name] # <<>>
       /\ \/ value = samples[name][Len(samples[name])]
          \/ calls[name] >= WindowCapacity
       /\ \A other \in Metrics : calls[other] <= calls[name]

RecordPastWindow(name, value) ==
    /\ WithinWindowBound(name, value)
    /\ RecordCall(name, value)

\* record(name, value) with a value of a varied stream on one metric
RecordVaried(name, value) ==
    /\ calls[name] < MaxSamples
    /\ \A other \in Metrics \ {name} : calls[other] = 0
    /\ RecordCall(name, value)

\* isReady(name), getBaseline(name) or getValues(name) on the manager
Reads == {"isReady", "getBaseline", "getValues"}

ReadCall(op, name) ==
    /\ lastCall' = [op |-> op, json |-> NoText]
    /\ _baselines' = BaselineManager_afterRead(_baselines, op, name)
    /\ UNCHANGED <<_minSamples, storage, calls, restored, nRestore, samples>>

Query(op) == \E name \in Metrics : ReadCall(op, name)

\* A new session: a fresh manager is constructed with the same learning
\* period and sample rate and restore() is called on it with the stored
\* string.
FreshRestore ==
    /\ storage # <<>>
    /\ fresh'     = BaselineManager_restore(NewMap, storage[1])
    /\ freshFrom' = storage


\* record(name, value) on the manager before its state is handed on
RecordBeforeHandover(name, value) ==
    /\ storage = <<>>
    /\ SumOver(calls, Metrics) < MaxMirrored
    /\ RecordCall(name, value)

\* The new session's manager is restored once, from the string stored last.
HandOver ==
    /\ freshFrom = <<>>
    /\ FreshRestore

\* record(name, value) with the same sample on the manager and on the fresh
\* manager restored from it
RecordOnBoth(name, value) ==
    /\ freshFrom # <<>>
    /\ SumOver(calls, Metrics) < MaxMirrored
    /\ RecordCall(name, value)
    /\ fresh' = BaselineManager_record(fresh, name, value)
    /\ UNCHANGED freshFrom

(***************************************************************************)
(* Strategies: state after construction and operations                     *)
(***************************************************************************)
NoMetric == [name |-> "", value |-> 0]

\* The constructor arguments explored: smoothing factors and thresholds.
Alphas     == {Num(1, 2), Num(1, 4)}
Thresholds == {Num(5, 2)}

\* new ZScoreStrategy(zThreshold) and new EMAStrategy(a, dThreshold)
StrategyNew(zThreshold, a, dThreshold) ==
    /\ threshold = zThreshold
    /\ alpha = a
    /\ deviationThreshold = dThreshold
    /\ _emaValues = NewMap
    /\ verdict = NoVerdict
    /\ lastDetect = [strategy |-> "none", metric |-> NoMetric, base |-> [isNull |-> TRUE]]
    /\ emaSeen = {}
    /\ nDetect = 0
    /\ active = "ema"

\* The constructors' defaults: threshold 2.5, alpha 0.3, deviationThreshold 2.5
StrategiesIdle == StrategyNew(Num(5, 2), Num(3, 10), Num(5, 2))

\* record(name, value) with a sample of a metric under detection
RecordBaseline(name, value) ==
    /\ SumOver(calls, Metrics) < MaxBaseline
    /\ RecordCall(name, value)

\* record(name, value) with a sample of one of a pair of metrics
RecordPair(name, value) ==
    /\ SumOver(calls, Metrics) < MaxPairRecords
    /\ RecordCall(name, value)

\* record(name, value) on a manager that is read between the calls
RecordBetweenReads(name, value) ==
    /\ SumOver(calls, Metrics) < MaxReadRecords
    /\ RecordCall(name, value)

\* zscore.detect({name, value}, baselineManager)
DetectZ(name, value) ==
    /\ nDetect < MaxDetects
    /\ verdict' = ZScoreStrategy_detect(threshold, [name |-> name, value |-> value],
                                        _baselines, _minSamples)
    /\ lastDetect' = [strategy |-> "zscore",
                      metric   |-> [name |-> name, value |-> value],
                      base     |-> BaselineManager_getBaseline(_baselines, _minSamples, name)]
    /\ nDetect' = nDetect + 1
    /\ UNCHANGED <<threshold, alpha, deviationThreshold, _emaValues, emaSeen, active>>

\* ema.detect({name, value}, baselineManager)
DetectEma(name, value) ==
    /\ nDetect < MaxDetects
    /\ LET out == EMAStrategy_detect(alpha, deviationThreshold, _emaValues,
                                     [name |-> name, value |-> value],
                                     _baselines, _minSamples)
           base == BaselineManager_getBaseline(_baselines, _minSamples, name)
       IN  /\ verdict' = out.returned
           /\ _emaValues' = out._emaValues
           /\ lastDetect' = [strategy |-> "ema",
                             metric   |-> [name |-> name, value |-> value],
                             base     |-> base]
           /\ emaSeen' = IF base.isNull THEN emaSeen
                         ELSE IF StdDevIsZero(base) THEN emaSeen
                         ELSE emaSeen \cup {name}
    /\ nDetect' = nDetect + 1
    /\ UNCHANGED <<threshold, alpha, deviationThreshold, active>>

(***************************************************************************)
(* Anomaly Engine (specification, section 4.5): the listener it subscribes *)
(* to the metric-ingestion event type.                                     *)
(***************************************************************************)
MetricCollected == "metric:collected"
AnomalyDetected == "anomaly:detected"

\* The engine's listener and the bus it is subscribed to once.
EngineListener == Fn("engine")

EngineSubscribed ==
    /\ _listeners = [t \in {MetricCollected} |-> <<EngineListener>>]
    /\ _history   = <<>>
    /\ emitted    = <<>>
    /\ stack      = <<>>
    /\ unsubs     = {}
    /\ reg        = [p \in Types \X Listeners |-> NotRegistered]
    /\ onceCalls  = [k \in 1..MaxOnce |-> 0]
    /\ nCalls     = 0
    /\ nOnce      = 0
    /\ nEmit      = 0

\* Step (2): the active strategy's detect(sample, baselineManager)
AnomalyEngine_detect(metric, bl) ==
    IF active = "zscore"
    THEN [returned   |-> ZScoreStrategy_detect(threshold, metric, bl, _minSamples),
          _emaValues |-> _emaValues]
    ELSE EMAStrategy_detect(alpha, deviationThreshold, _emaValues, metric, bl, _minSamples)

RECURSIVE EmitAll(_, _)
EmitAll(h, events) ==
    IF events = <<>> THEN h
    ELSE EmitAll(EventBus_emit_history(h, Head(events)), Tail(events))

\* A collector publishes the sample {name, value} on the metric-ingestion
\* channel and the bus delivers it to the engine, which (1) records it,
\* (2) if isReady(name) calls detect of the active strategy and (3) if a
\* verdict is returned publishes it on the anomaly-event channel, where
\* nothing is subscribed.  The emit call runs to completion.
IngestSample(name, value) ==
    /\ SumOver(calls, Metrics) < MaxIngest
    /\ stack = <<>>
    /\ RecordCall(name, value)
    /\ LET metric == [name |-> name, value |-> value]
           bl     == BaselineManager_record(_baselines, name, value)
           ready  == BaselineManager_isReady(bl, _minSamples, name)
           out    == AnomalyEngine_detect(metric, bl)
           base   == BaselineManager_getBaseline(bl, _minSamples, name)
           n      == Len(emitted) + 1
           events == <<Envelope(MetricCollected, n)>> \o
                     (IF ready
                      THEN IF out.returned.isNull THEN <<>>
                           ELSE <<Envelope(AnomalyDetected, n + 1)>>
                      ELSE <<>>)
       IN  /\ IF ready
              THEN /\ verdict' = out.returned
                   /\ _emaValues' = out._emaValues
                   /\ lastDetect' = [strategy |-> active, metric |-> metric, base |-> base]
                   /\ emaSeen' = IF active = "zscore" THEN emaSeen
                                 ELSE IF base.isNull THEN emaSeen
                                 ELSE IF StdDevIsZero(base) THEN emaSeen
                                 ELSE emaSeen \cup {name}
                   /\ nDetect' = nDetect + 1
              ELSE UNCHANGED <<verdict, _emaValues, lastDetect, emaSeen, nDetect>>
           /\ _history' = EmitAll(_history, events)
           /\ emitted'  = emitted \o events
           /\ nEmit'    = nEmit + Len(events)
    /\ UNCHANGED <<threshold, alpha, deviationThreshold, active>>
    /\ UNCHANGED <<_listeners, stack, unsubs, reg, onceCalls, nCalls, nOnce>>

(***************************************************************************)
(* Collectors.  A collector arms event sources in the browser when it is   *)
(* started: intervals, animation frames, observers and patched network     *)
(* functions.  The browser runs the callback of a source as long as it     *)
(* holds it, and the callback publishes on the bus.  The browser is taken  *)
(* to support PerformanceObserver, MutationObserver and MessageChannel.    *)
(***************************************************************************)
Collectors == {"CPUCollector", "JSExecutionCollector", "MemoryCollector",
               "WebVitalsCollector", "NetworkCollector"}

\* The sources whose callbacks publish, by the method that arms them.
CPUSources         == {"_measureFPS", "_startPeriodicReport"}
JSExecutionSources == {"_observeLongTasks", "_monitorEventLoopLag",
                       "_observeScriptTiming", "_observeInteractions"}
MemorySources      == {"_startHeapPolling", "_tryModernMemoryAPI", "_observeDOMNodeCount"}
WebVitalsSources   == {"_observeLCP", "_observeFCP", "_observeCLS", "_observeINP"}
NetworkSources     == {"_observeResources", "_interceptFetch", "_interceptXHR"}

SourcesOf(c) ==
    IF c = "CPUCollector" THEN CPUSources
    ELSE IF c = "JSExecutionCollector" THEN JSExecutionSources
    ELSE IF c = "MemoryCollector" THEN MemorySources
    ELSE IF c = "WebVitalsCollector" THEN WebVitalsSources
    ELSE NetworkSources

Sources == UNION {SourcesOf(c) : c \in Collectors}

OwnerOf(s) == CHOOSE c \in Collectors : s \in SourcesOf(c)

\* start(): the sources armed by the methods it calls.  MemoryCollector
\* polls performance.memory when the browser has it and otherwise falls
\* back to measureUserAgentSpecificMemory when that is a function.
Collector_start(c, h) ==
    IF c = "MemoryCollector"
    THEN {"_observeDOMNodeCount"} \cup
         (IF h.memory THEN {"_startHeapPolling"}
          ELSE IF h.measureMemory THEN {"_tryModernMemoryAPI"}
          ELSE {})
    ELSE SourcesOf(c)

\* stop(): the sources it takes back from the browser, which are the ones
\* whose handle start() kept in a field.  JSExecutionCollector keeps the
\* script-timing observer in a local constant and MemoryCollector drops
\* the handle of the fallback interval.
Collector_stop(c) ==
    IF c = "JSExecutionCollector"
    THEN {"_observeLongTasks", "_observeInteractions", "_monitorEventLoopLag"}
    ELSE IF c = "MemoryCollector"
    THEN {"_startHeapPolling", "_observeDOMNodeCount"}
    ELSE SourcesOf(c)

\* The sources whose callback does not publish itself but waits: for the
\* message it posted, the promise of the measurement, the response.
Deferred == {"_monitorEventLoopLag", "_tryModernMemoryAPI", "_interceptFetch",
             "_interceptXHR"}

\* The event types the callback of a source publishes.
Publishes(s) ==
    IF s \in {"_startHeapPolling", "_interceptFetch"}
    THEN {MetricCollected, AnomalyDetected}
    ELSE {MetricCollected}

\* Collectors constructed and not started, in some browser.
CollectorsNew ==
    /\ host \in [memory : BOOLEAN, measureMemory : BOOLEAN, navigation : BOOLEAN]
    /\ isRunning = [c \in Collectors |-> FALSE]
    /\ live      = [s \in Sources |-> 0]
    /\ pending   = [s \in Sources |-> 0]
    /\ afterStop = [c \in Collectors |-> 0]
    /\ nStarts   = 0

CollectorsIdle ==
    /\ host = [memory |-> TRUE, measureMemory |-> FALSE, navigation |-> FALSE]
    /\ isRunning = [c \in Collectors |-> FALSE]
    /\ live      = [s \in Sources |-> 0]
    /\ pending   = [s \in Sources |-> 0]
    /\ afterStop = [c \in Collectors |-> 0]
    /\ nStarts   = 0

\* eventBus.emit(type, collectorName, payload) by collector c, with nothing
\* subscribed to the bus
Publish(c, type) ==
    /\ stack = <<>>
    /\ _history' = EventBus_emit_history(_history, Envelope(type, Len(emitted) + 1))
    /\ emitted'  = Append(emitted, Envelope(type, Len(emitted) + 1))
    /\ nEmit'    = nEmit + 1
    /\ afterStop' = [afterStop EXCEPT ![c] = IF isRunning[c] THEN @ ELSE @ + 1]
    /\ UNCHANGED <<_listeners, stack, unsubs, reg, onceCalls, nCalls, nOnce>>

\* start() of collector c.  It returns at once when the collector is
\* running.  WebVitalsCollector publishes the time to first byte from
\* within start() when the browser has a navigation entry.
CollectorStart(c) ==
    /\ nStarts < MaxStarts
    /\ ~isRunning[c]
    /\ isRunning' = [isRunning EXCEPT ![c] = TRUE]
    /\ live' = [s \in Sources |->
                  IF s \in Collector_start(c, host) THEN live[s] + 1 ELSE live[s]]
    /\ nStarts' = nStarts + 1
    /\ IF c = "WebVitalsCollector" /\ host.navigation /\ nEmit < MaxPublished
       THEN /\ stack = <<>>
            /\ _history' = EventBus_emit_history(_history,
                                Envelope(MetricCollected, Len(emitted) + 1))
            /\ emitted'  = Append(emitted, Envelope(MetricCollected, Len(emitted) + 1))
            /\ nEmit'    = nEmit + 1
            /\ UNCHANGED <<_listeners, stack, unsubs, reg, onceCalls, nCalls, nOnce>>
       ELSE UNCHANGED busVars
    /\ afterStop' = [afterStop EXCEPT ![c] = 0]
    /\ UNCHANGED <<host, pending>>

\* stop() of collector c
CollectorStop(c) ==
    /\ isRunning' = [isRunning EXCEPT ![c] = FALSE]
    /\ live' = [s \in Sources |-> IF s \in Collector_stop(c) THEN 0 ELSE live[s]]
    /\ UNCHANGED <<host, pending, afterStop, nStarts>>
    /\ UNCHANGED busVars

\* The browser runs the callback of a source it holds: the interval is
\* due, a frame is painted, the observer has entries, the page calls the
\* patched fetch or sends a patched request.
SourceFires(s) ==
    /\ live[s] > 0
    /\ nEmit + SumOver(pending, Sources) < MaxPublished
    /\ IF s \in Deferred
       THEN /\ pending' = [pending EXCEPT ![s] = @ + 1]
            /\ UNCHANGED <<afterStop>>
            /\ UNCHANGED busVars
       ELSE /\ \E type \in Publishes(s) : Publish(OwnerOf(s), type)
            /\ UNCHANGED pending
    /\ UNCHANGED <<host, isRunning, live, nStarts>>

\* What a callback waited for arrives and it publishes.
DeferredCompletes(s) ==
    /\ pending[s] > 0
    /\ pending' = [pending EXCEPT ![s] = @ - 1]
    /\ \E type \in Publishes(s) : Publish(OwnerOf(s), type)
    /\ UNCHANGED <<host, isRunning, live, nStarts>>

(***************************************************************************)
(* Specifications.  Each one drives one component and leaves the others    *)
(* as constructed.                                                         *)
(***************************************************************************)
RingIdle ==
    /\ ring = RingBuffer_new(1)
    /\ pushed = <<>>

ManagerIdle == ManagerNew(0, 1)

InitBus == BusAfter(0) /\ RingIdle /\ CollectorsIdle /\ ManagerIdle /\ StrategiesIdle

NextBus ==
    /\ \/ \E type \in Types, f \in Funcs : On(type, f)
       \/ \E type \in Types, f \in Funcs : Once(type, f)
       \/ \E cap \in unsubs : Unsubscribe(cap)
       \/ \E type \in Types : Emit(type)
       \/ Dispatch
       \/ EmitReturn
       \/ ListenerReturn
       \/ ListenerThrow
    /\ UNCHANGED <<collVars, ringVars, mgrVars, freshVars, stratVars>>

SpecBus == InitBus /\ [][NextBus]_vars

\* The bus one emit short of a full history, then subscribed to and
\* emitted on, also re-entrantly from listeners that return or throw.
InitBusHistory == BusAfter(_maxHistory - 1) /\ RingIdle /\ CollectorsIdle /\ ManagerIdle /\ StrategiesIdle

NextBusHistory ==
    /\ \/ \E type \in Types, f \in Funcs : On(type, f)
       \/ \E type \in Types : Emit(type)
       \/ Dispatch
       \/ EmitReturn
       \/ ListenerReturn
       \/ ListenerThrow
    /\ UNCHANGED <<collVars, ringVars, mgrVars, freshVars, stratVars>>

SpecBusHistory == InitBusHistory /\ [][NextBusHistory]_vars

\* The bus inside a listener that has emitted re-entrantly until the
\* history is one short of full, then emitted on further.
InitBusReentrant ==
    BusInListenerAfter(_maxHistory - 2) /\ RingIdle /\ CollectorsIdle /\ ManagerIdle /\ StrategiesIdle

SpecBusReentrant == InitBusReentrant /\ [][NextBusHistory]_vars

InitManager ==
    /\ \E learningPeriodSeconds \in LearningPeriods, sampleRateHz \in SampleRates :
          ManagerNew(learningPeriodSeconds, sampleRateHz)
    /\ BusAfter(0)
    /\ RingIdle /\ CollectorsIdle
    /\ StrategiesIdle

NextManager ==
    /\ \/ \E name \in Metrics, value \in Values : Record(name, value)
       \/ Serialize
       \/ \E json \in Payloads : Restore(json)
    /\ UNCHANGED <<collVars, ringVars, busVars, freshVars, stratVars>>

SpecManager == InitManager /\ [][NextManager]_vars

\* A manager that records, with reads between the record calls: isReady,
\* getBaseline, getValues, serialize, and ZScoreStrategy.detect, which
\* calls getBaseline(metric.name) on the manager it is handed (line 32).
InitReads ==
    /\ ManagerNew(2, 1)
    /\ BusAfter(0)
    /\ RingIdle /\ CollectorsIdle
    /\ StrategiesIdle

NextReads ==
    /\ \/ \E name \in Metrics, value \in Values :
             RecordBetweenReads(name, value) /\ UNCHANGED stratVars
       \/ Serialize /\ UNCHANGED stratVars
       \/ \E op \in Reads : Query(op) /\ UNCHANGED stratVars
       \/ \E name \in Metrics, value \in FarValues :
             DetectZ(name, value) /\ ReadCall("getBaseline", name)
    /\ UNCHANGED <<collVars, ringVars, busVars, freshVars>>

SpecReads == InitReads /\ [][NextReads]_vars

\* A manager that records, serializes once its samples are in, and goes on
\* recording side by side with the fresh manager restored from the string.
InitMirror ==
    /\ ManagerNew(2, 1)
    /\ BusAfter(0)
    /\ RingIdle /\ CollectorsIdle
    /\ StrategiesIdle

NextMirror ==
    /\ \/ \E name \in Metrics, value \in Values :
             RecordBeforeHandover(name, value) /\ UNCHANGED freshVars
       \/ Serialize /\ freshFrom = <<>> /\ UNCHANGED freshVars
       \/ HandOver /\ UNCHANGED mgrVars
       \/ \E name \in Metrics, value \in Values : RecordOnBoth(name, value)
    /\ UNCHANGED <<collVars, ringVars, busVars, stratVars>>

SpecMirror == InitMirror /\ [][NextMirror]_vars

\* One manager under every operation of its interface, reads included.
InitCount ==
    /\ ManagerNew(2, 1)
    /\ BusAfter(0)
    /\ RingIdle /\ CollectorsIdle
    /\ StrategiesIdle

NextCount ==
    /\ \/ \E name \in Metrics, value \in Values : Record(name, value)
       \/ Serialize
       \/ \E json \in Payloads : Restore(json)
       \/ \E op \in Reads : Query(op)
    /\ UNCHANGED <<collVars, ringVars, busVars, freshVars, stratVars>>

SpecCount == InitCount /\ [][NextCount]_vars

\* A manager recording more samples of a metric than its window retains.
InitWindow ==
    /\ ManagerNew(1, 1)
    /\ BusAfter(0)
    /\ RingIdle /\ CollectorsIdle
    /\ StrategiesIdle

NextWindow ==
    /\ \E name \in Metrics, value \in Values : RecordPastWindow(name, value)
    /\ UNCHANGED <<collVars, ringVars, busVars, freshVars, stratVars>>

SpecWindow == InitWindow /\ [][NextWindow]_vars

\* A manager recording one metric with values 1 to 5 in any order.
NextWelford ==
    /\ \E name \in Metrics, value \in VariedValues : RecordVaried(name, value)
    /\ UNCHANGED <<collVars, ringVars, busVars, freshVars, stratVars>>

SpecWelford == InitWindow /\ [][NextWelford]_vars

\* The two strategies over a manager with a learning period of three
\* samples: samples are recorded and samples are put to detect() in any
\* order.
InitStrategy ==
    /\ ManagerNew(3, 1)
    /\ \E a \in Alphas, t \in Thresholds : StrategyNew(t, a, t)
    /\ BusAfter(0)
    /\ RingIdle /\ CollectorsIdle

NextStrategy ==
    /\ \/ \E name \in Metrics, value \in BaselineValues :
             RecordBaseline(name, value) /\ UNCHANGED stratVars
       \/ \E name \in Metrics, value \in DetectValues :
             DetectZ(name, value) /\ UNCHANGED mgrVars
       \/ \E name \in Metrics, value \in DetectValues :
             DetectEma(name, value) /\ UNCHANGED mgrVars
    /\ UNCHANGED <<collVars, ringVars, busVars, freshVars>>

SpecStrategy == InitStrategy /\ [][NextStrategy]_vars

\* The two strategies over two metrics that can both be ready: a learning
\* period of two samples.
InitPartition ==
    /\ ManagerNew(2, 1)
    /\ \E a \in Alphas, t \in Thresholds : StrategyNew(t, a, t)
    /\ BusAfter(0)
    /\ RingIdle /\ CollectorsIdle

NextPartition ==
    /\ \/ \E name \in Metrics, value \in PairValues :
             RecordPair(name, value) /\ UNCHANGED stratVars
       \/ \E name \in Metrics, value \in FarValues :
             DetectZ(name, value) /\ UNCHANGED mgrVars
       \/ \E name \in Metrics, value \in FarValues :
             DetectEma(name, value) /\ UNCHANGED mgrVars
    /\ UNCHANGED <<collVars, ringVars, busVars, freshVars>>

SpecPartition == InitPartition /\ [][NextPartition]_vars

\* The Anomaly Engine fed with samples of two metrics, with a learning
\* period of none or three samples and either strategy at threshold 0.5.
InitEngine ==
    /\ \E learningPeriodSeconds \in {0, 3} : ManagerNew(learningPeriodSeconds, 1)
    /\ threshold = Num(1, 2)
    /\ alpha = Num(1, 2)
    /\ deviationThreshold = Num(1, 2)
    /\ _emaValues = NewMap
    /\ verdict = NoVerdict
    /\ lastDetect = [strategy |-> "none", metric |-> NoMetric, base |-> [isNull |-> TRUE]]
    /\ emaSeen = {}
    /\ nDetect = 0
    /\ active \in {"zscore", "ema"}
    /\ EngineSubscribed
    /\ RingIdle /\ CollectorsIdle

NextEngine ==
    /\ \E name \in Metrics, value \in EngineValues : IngestSample(name, value)
    /\ UNCHANGED <<collVars, ringVars, freshVars>>

SpecEngine == InitEngine /\ [][NextEngine]_vars

\* Persistence across sessions: a manager that records, the host that
\* stores its serialize() output, and a fresh manager restored from it.
NextPersist ==
    /\ \/ \E name \in Metrics, value \in Values : Record(name, value) /\ UNCHANGED freshVars
       \/ Serialize /\ UNCHANGED freshVars
       \/ FreshRestore /\ UNCHANGED mgrVars
    /\ UNCHANGED <<collVars, ringVars, busVars, stratVars>>

SpecPersist == InitManager /\ [][NextPersist]_vars

InitRing ==
    /\ \E c \in 1..MaxCapacity : ring = RingBuffer_new(c)
    /\ pushed = <<>>
    /\ BusAfter(0)
    /\ ManagerIdle
    /\ StrategiesIdle
    /\ CollectorsIdle

RingPush ==
    /\ Len(pushed) < MaxPushes
    /\ \E item \in Items :
          /\ ring'   = RingBuffer_push(ring, item)
          /\ pushed' = Append(pushed, item)

NextRing == RingPush /\ UNCHANGED <<busVars, mgrVars, freshVars, stratVars, collVars>>

SpecRing == InitRing /\ [][NextRing]_vars

\* The collectors started and stopped by the host while the browser runs
\* the callbacks of the sources it holds.
InitCollectors ==
    /\ CollectorsNew
    /\ BusAfter(0)
    /\ RingIdle
    /\ ManagerIdle
    /\ StrategiesIdle

NextCollectors ==
    /\ \/ \E c \in Collectors : CollectorStart(c)
       \/ \E c \in Collectors : CollectorStop(c)
       \/ \E s \in Sources : SourceFires(s)
       \/ \E s \in Sources : DeferredCompletes(s)
    /\ UNCHANGED <<ringVars, mgrVars, freshVars, stratVars>>

SpecCollectors == InitCollectors /\ [][NextCollectors]_vars

\* C1: for any capacity C >= 1 and any n pushes, toArray() is exactly the
\* last min(n, C) pushed items, oldest first, and the empty sequence for n = 0.
C1_ToArrayIsLastPushed ==
    RingBuffer_toArray(ring) = LastN(pushed, ring.capacity)

\* A full ring that has wrapped at least once past an unaligned head.
C1_Witness ==
    /\ Len(pushed) > ring.capacity
    /\ ring.head # 0
    /\ ring.capacity > 1
    /\ RingBuffer_toArray(ring) = LastN(pushed, ring.capacity)
    /\ pushed[Len(pushed)] # pushed[Len(pushed) - 1]

\* C2: length is min(pushes so far, capacity); it never exceeds the capacity
\* and the backing array keeps the length it was constructed with.
C2_LengthBounded ==
    /\ RingBuffer_length(ring) = Min(Len(pushed), ring.capacity)
    /\ RingBuffer_length(ring) <= ring.capacity
    /\ ring.buffer.length = ring.capacity
    /\ DOMAIN ring.buffer.elems \subseteq 0..(ring.capacity - 1)

C2_Witness ==
    /\ Len(pushed) > ring.capacity
    /\ RingBuffer_length(ring) = ring.capacity
    /\ ring.buffer.length = ring.capacity
(***************************************************************************)
(* EventBus: properties                                                    *)
(***************************************************************************)
\* The subscription of listener l to `type` now in force, as an entry of a
\* frame's invoked list.
Current(type, l) == [fn |-> l, stamp |-> reg[<<type, l>>].stamp]

Subscribed(type, l) == reg[<<type, l>>].calls > 0

InvokedIn(frame, entry) == \E i \in 1..Len(frame.invoked) : frame.invoked[i] = entry

TimesInvokedIn(frame, entry) ==
    Cardinality({i \in 1..Len(frame.invoked) : frame.invoked[i] = entry})

\* The emit call on top of the stack has finished its loop and is about to
\* return.
EmitFinishing ==
    IF stack = <<>> THEN FALSE
    ELSE Top.kind = "emit" /\ Top.pos >= Len(_listeners[Top.type])

\* C3: the history holds at most 1000 envelopes and is the most recent
\* min(n, 1000) of the n envelopes emitted so far, in emit order, whatever
\* the types and the nesting of the emit calls.
C3_HistoryBound ==
    /\ Len(_history) <= _maxHistory
    /\ _history = LastN(emitted, _maxHistory)

\* The 1001st emit, made re-entrantly from a listener, has evicted the first
\* envelope.
C3_Witness ==
    /\ Len(emitted) = _maxHistory + 1
    /\ Len(_history) = _maxHistory
    /\ _history[1] = emitted[2]
    /\ Len(stack) >= 2

\* C4: when L1 was subscribed to T before L2 and both subscriptions are
\* still in force, an emit(T) that is running L2 has already invoked L1
\* (which, the stack being a stack, has run to completion), and an emit(T)
\* that is about to return has invoked every subscribed listener.
C4_SubscriptionOrder ==
    /\ \A k \in 2..Len(stack) :
          stack[k].kind = "listener" =>
             LET e    == stack[k - 1]
                 type == e.type
                 l2   == stack[k].fn
             IN  \A l1 \in Listeners :
                    ( /\ Subscribed(type, l1)
                      /\ Subscribed(type, l2)
                      /\ stack[k].stamp = reg[<<type, l2>>].stamp
                      /\ reg[<<type, l1>>].stamp < reg[<<type, l2>>].stamp )
                    => \E i \in 1..(Len(e.invoked) - 1) :
                          e.invoked[i] = Current(type, l1)
    /\ EmitFinishing =>
          \A l \in Listeners :
             Subscribed(Top.type, l) => InvokedIn(Top, Current(Top.type, l))

\* L2 is running inside an emit that invoked the earlier subscriber L1 first.
C4_Witness ==
    /\ Len(stack) >= 2
    /\ Top.kind = "listener"
    /\ Subscribed(Top.type, Top.fn)
    /\ Top.stamp = reg[<<Top.type, Top.fn>>].stamp
    /\ \E l1 \in Listeners :
          /\ Subscribed(Top.type, l1)
          /\ reg[<<Top.type, l1>>].stamp < Top.stamp
          /\ stack[Len(stack) - 1].invoked =
                <<Current(Top.type, l1), Current(Top.type, Top.fn)>>

\* C5: a listener that throws is caught inside emit: the step that ends a
\* listener invocation removes that one frame only, so the error does not
\* unwind the emit call or reach its caller, and an emit call in which a
\* listener threw still invokes every subscribed listener before returning.
C5_ThrowLeavesEmitRunning ==
    (IF stack = <<>> THEN FALSE
     ELSE Top.kind = "listener" /\ Len(stack') < Len(stack))
    => /\ Len(stack') = Len(stack) - 1
       /\ stack'[Len(stack')].kind = "emit"
       /\ stack'[Len(stack')].event = Top.event

C5_ThrowDoesNotStopDelivery ==
    (EmitFinishing /\ Top.threw) =>
        \A l \in Listeners :
           Subscribed(Top.type, l) => InvokedIn(Top, Current(Top.type, l))

C5_ListenerIsolation ==
    [][C5_ThrowLeavesEmitRunning]_vars /\ []C5_ThrowDoesNotStopDelivery

\* An emit in which the first listener threw has gone on to invoke a second.
C5_Witness ==
    /\ EmitFinishing
    /\ Top.threw
    /\ Len(Top.invoked) >= 2

\* C6: a function passed to on(T, f) two or more times without an
\* unsubscribe in between is invoked at most once by any emit(T) in
\* progress and exactly once by an emit(T) that is about to return.
C6_IdempotentRegistration ==
    /\ \A k \in 1..Len(stack) :
          stack[k].kind = "emit" =>
             \A l \in Listeners :
                reg[<<stack[k].type, l>>].calls >= 2 =>
                   TimesInvokedIn(stack[k], Current(stack[k].type, l)) <= 1
    /\ EmitFinishing =>
          \A l \in Listeners :
             reg[<<Top.type, l>>].calls >= 2 =>
                TimesInvokedIn(Top, Current(Top.type, l)) = 1
    /\ \A type \in DOMAIN _listeners :
          \A i, j \in 1..Len(_listeners[type]) :
             _listeners[type][i] = _listeners[type][j] => i = j

C6_Witness ==
    /\ EmitFinishing
    /\ \E l \in Listeners :
          /\ reg[<<Top.type, l>>].calls >= 2
          /\ TimesInvokedIn(Top, Current(Top.type, l)) = 1

\* C7: the wrapper registered by a once() call is invoked at most once, and
\* from its first invocation on it is in no Set of the bus, whether the
\* wrapped function returns, throws or emits re-entrantly.
C7_OnceAtMostOnce ==
    \A k \in 1..MaxOnce :
       /\ onceCalls[k] <= 1
       /\ onceCalls[k] >= 1 =>
             \A type \in DOMAIN _listeners, f \in Funcs :
                ~SetHas(_listeners[type], OnceWrapper(k, f))

\* A once() listener emitted its own type re-entrantly and the nested emit
\* finished without invoking it again.
C7_Witness ==
    /\ EmitFinishing
    /\ Len(stack) >= 3
    /\ stack[Len(stack) - 1].kind = "listener"
    /\ stack[Len(stack) - 1].fn.w > 0
    /\ stack[Len(stack) - 1].type = Top.type
    /\ onceCalls[stack[Len(stack) - 1].fn.w] = 1

\* C8: a listener is invoked only while a subscription of it is in force
\* (not after its unsubscribe closure was invoked and before the next on());
\* every closure handed out finds the Set of its type, so invoking it, also
\* repeatedly or during a dispatch, cannot fail; and an emit during which a
\* closure of its type was invoked still invokes every subscribed listener.
C8_Unsubscribe ==
    /\ \A k \in 1..Len(stack) :
          stack[k].kind = "listener" => stack[k].stamp > 0
    /\ \A cap \in unsubs : cap.type \in DOMAIN _listeners
    /\ (EmitFinishing /\ Top.unsubbed) =>
          \A l \in Listeners :
             Subscribed(Top.type, l) => InvokedIn(Top, Current(Top.type, l))

\* A listener unsubscribed an already invoked listener during the dispatch
\* and the emit still reached a later listener.
C8_Witness ==
    /\ EmitFinishing
    /\ Top.unsubbed
    /\ Len(Top.invoked) >= 2
    /\ ~Subscribed(Top.type, Top.invoked[1].fn)
    /\ Top.invoked[1].fn.w = 0
    /\ Subscribed(Top.type, Top.invoked[2].fn)

(***************************************************************************)
(* BaselineManager: properties                                             *)
(***************************************************************************)
\* C9: with minSamples >= 1, for a metric fed by record() alone,
\* getBaseline(name) is null as long as fewer than minSamples record calls
\* were made for it and a snapshot from the minSamples-th call on.
C9_ReadinessGating ==
    _minSamples >= 1 =>
       \A name \in Metrics :
          name \notin restored =>
             ( BaselineManager_getBaseline(_baselines, _minSamples, name).isNull
               <=> calls[name] < _minSamples )

\* learningPeriodSeconds = 30, sampleRateHz = 1: the 30th record call has
\* just made the snapshot available.
C9_Witness ==
    /\ _minSamples = 30
    /\ \E name \in Metrics :
          /\ calls[name] = 30
          /\ name \notin restored
          /\ ~BaselineManager_getBaseline(_baselines, _minSamples, name).isNull
          /\ BaselineManager_getBaseline(_baselines, _minSamples, name).sampleCount = 30

\* C10: a restore call whose argument JSON.parse rejects leaves the Map of
\* baseline records (names, count, mean, m2, min, max, retained window)
\* exactly as it was.
C10_UnparseableStep ==
    (lastCall'.op = "restore" /\ JSON_parse(lastCall'.json).threw)
    => _baselines' = _baselines

C10_UnparseableRestoreIsNoOp == [][C10_UnparseableStep]_vars

\* restore() was just called with a stored string cut short while two
\* metrics had records.
C10_Witness ==
    /\ lastCall.op = "restore"
    /\ JSON_parse(lastCall.json).threw
    /\ lastCall.json.value.t = "object"
    /\ Len(lastCall.json.value.entries) >= 1
    /\ Len(_baselines.keys) = 2
    /\ \E name \in Metrics : calls[name] >= 2 /\ name \notin restored

\* The payload is one restore() cannot apply: JSON.parse rejects it, or it
\* spells null, or one of its entries is null.
RestoreFails(json) ==
    \/ JSON_parse(json).threw
    \/ json.value.t = "null"
    \/ \E i \in 1..Len(json.value.entries) : json.value.entries[i].saved.t = "null"

\* C11: restore never applies a payload in part: a restore call that fails
\* at any point leaves every baseline record as it was.
C11_Step ==
    (lastCall'.op = "restore" /\ RestoreFails(lastCall'.json))
    => _baselines' = _baselines

C11_RestoreAllOrNothing == [][C11_Step]_vars

\* C12: when the fresh manager was restored from the string serialize()
\* returns for the manager as it now stands, every metric with a ready
\* baseline in the manager has a ready baseline in the fresh manager with
\* the same mean, stdDev, variance, sampleCount, min and max.
C12_RestoreRoundTrip ==
    freshFrom = <<BaselineManager_serialize(_baselines)>> =>
       \A name \in Metrics :
          LET b == BaselineManager_getBaseline(_baselines, _minSamples, name)
              r == BaselineManager_getBaseline(fresh, _minSamples, name)
          IN  ~b.isNull =>
                 /\ ~r.isNull
                 /\ r.mean = b.mean
                 /\ r.stdDev = b.stdDev
                 /\ r.variance = b.variance
                 /\ r.sampleCount = b.sampleCount
                 /\ r.min = b.min
                 /\ r.max = b.max

\* A fresh manager restored from a manager with two ready metrics, one of
\* them with a spread.
C12_Witness ==
    /\ freshFrom = <<BaselineManager_serialize(_baselines)>>
    /\ _minSamples >= 1
    /\ \A name \in Metrics :
          ~BaselineManager_getBaseline(_baselines, _minSamples, name).isNull
    /\ \E name \in Metrics :
          /\ BaselineManager_getBaseline(fresh, _minSamples, name).variance # FromInt(0)
          /\ BaselineManager_getBaseline(fresh, _minSamples, name).mean.d # 1

\* The metric names of a payload restore() can apply.
NamedIn(json) == {json.value.entries[i].name : i \in 1..Len(json.value.entries)}

\* C13: right after a restore() that applies its payload, every metric named
\* in the payload has an empty retained window, and if it is ready its
\* baseline reports 0 for p50, p90, p95 and p99.
C13_Step ==
    (lastCall'.op = "restore" /\ ~RestoreFails(lastCall'.json)) =>
       \A name \in NamedIn(lastCall'.json) :
          /\ BaselineManager_getValues(_baselines', name) = <<>>
          /\ LET b == BaselineManager_getBaseline(_baselines', _minSamples', name)
             IN  BaselineManager_isReady(_baselines', _minSamples', name) =>
                    /\ ~b.isNull
                    /\ b.p50 = FromInt(0)
                    /\ b.p90 = FromInt(0)
                    /\ b.p95 = FromInt(0)
                    /\ b.p99 = FromInt(0)

C13_RestoredWindowEmpty == [][C13_Step]_vars

\* restore() has just replaced the record of a metric whose window held
\* recorded values, and the metric is ready.
C13_Witness ==
    /\ lastCall.op = "restore"
    /\ ~RestoreFails(lastCall.json)
    /\ \E name \in NamedIn(lastCall.json) :
          /\ samples[name] # <<>>
          /\ BaselineManager_getValues(_baselines, name) = <<>>
          /\ _minSamples >= 1
          /\ ~BaselineManager_getBaseline(_baselines, _minSamples, name).isNull
          /\ BaselineManager_getBaseline(_baselines, _minSamples, name).p99 = FromInt(0)

\* C14 as stated: on every step of the manager the count of an existing
\* metric does not decrease, and a record changes only in a record() call.
C14_StatedStep ==
    \A name \in Metrics :
       MapHas(_baselines, name) =>
          /\ MapHas(_baselines', name)
          /\ MapGet(_baselines', name).count >= MapGet(_baselines, name).count
          /\ MapGet(_baselines', name) # MapGet(_baselines, name) => lastCall'.op = "record"

C14_CountOnlyIncreases == [][C14_StatedStep]_vars

\* The record of `name` after a restore() call is the one before it, or the
\* one the payload saved for it: the saved count with an empty window.
RestoreReplaced(json, name, before, after) ==
    \/ after = before
    \/ IF JSON_parse(json).threw THEN FALSE
       ELSE IF json.value.t = "null" THEN FALSE
       ELSE \E i \in 1..Len(json.value.entries) :
               /\ json.value.entries[i].name = name
               /\ json.value.entries[i].saved.t = "object"
               /\ after.count = json.value.entries[i].saved.count.n
               /\ RingBuffer_toArray(after.values) = <<>>

\* C14, amended: record() raises the count of its metric by one and is the
\* only call besides restore() that changes a record; serialize() and the
\* reads change none; restore() replaces a record by the saved one, whose
\* count may be lower.  No call removes a record.
C14_AmendedStep ==
    \A name \in Metrics :
       MapHas(_baselines, name) =>
          /\ MapHas(_baselines', name)
          /\ IF lastCall'.op = "restore"
             THEN RestoreReplaced(lastCall'.json, name,
                                  MapGet(_baselines, name), MapGet(_baselines', name))
             ELSE /\ MapGet(_baselines', name).count >= MapGet(_baselines, name).count
                  /\ MapGet(_baselines', name) # MapGet(_baselines, name) =>
                        /\ lastCall'.op = "record"
                        /\ MapGet(_baselines', name).count = MapGet(_baselines, name).count + 1

C14_CountIncreasesExceptRestore == [][C14_AmendedStep]_vars

\* restore() has just left a metric with a count below the number of its
\* record() calls.
C14_Witness ==
    /\ lastCall.op = "restore"
    /\ \E name \in Metrics :
          /\ MapHas(_baselines, name)
          /\ MapGet(_baselines, name).count >= 1
          /\ MapGet(_baselines, name).count < Len(samples[name])

\* The least and the greatest element of a non-empty sequence of integers.
SeqMin(s) == CHOOSE x \in {s[i] : i \in DOMAIN s} : \A i \in DOMAIN s : x <= s[i]
SeqMax(s) == CHOOSE x \in {s[i] : i \in DOMAIN s} : \A i \in DOMAIN s : x >= s[i]

\* C15: after any sequence of record() calls, min and max of a record are
\* the least and the greatest of all values ever recorded for the metric,
\* evicted ones included, so every retained value lies between them.
C15_RunningExtremes ==
    \A name \in Metrics :
       MapHas(_baselines, name) =>
          /\ samples[name] # <<>>
          /\ MapGet(_baselines, name).min = FromInt(SeqMin(samples[name]))
          /\ MapGet(_baselines, name).max = FromInt(SeqMax(samples[name]))
          /\ \A i \in DOMAIN BaselineManager_getValues(_baselines, name) :
                /\ ~NumLess(FromInt(BaselineManager_getValues(_baselines, name)[i]),
                            MapGet(_baselines, name).min)
                /\ ~NumLess(MapGet(_baselines, name).max,
                            FromInt(BaselineManager_getValues(_baselines, name)[i]))

\* More than 500 values were recorded and the least of them is no longer
\* in the retained window.
C15_Witness ==
    \E name \in Metrics :
       /\ MapHas(_baselines, name)
       /\ Len(samples[name]) > WindowCapacity
       /\ Len(BaselineManager_getValues(_baselines, name)) = WindowCapacity
       /\ \A i \in DOMAIN BaselineManager_getValues(_baselines, name) :
             BaselineManager_getValues(_baselines, name)[i] > SeqMin(samples[name])

\* More than 500 values were recorded and the greatest of them is no longer
\* in the retained window.
C15_WitnessMax ==
    \E name \in Metrics :
       /\ MapHas(_baselines, name)
       /\ Len(samples[name]) > WindowCapacity
       /\ \A i \in DOMAIN BaselineManager_getValues(_baselines, name) :
             BaselineManager_getValues(_baselines, name)[i] < SeqMax(samples[name])

\* The sum of the elements and of their squares of a sequence of integers.
RECURSIVE SeqSum(_)
SeqSum(s) == IF s = <<>> THEN 0 ELSE Head(s) + SeqSum(Tail(s))
RECURSIVE SeqSumSq(_)
SeqSumSq(s) == IF s = <<>> THEN 0 ELSE Head(s) * Head(s) + SeqSumSq(Tail(s))

\* The arithmetic mean and the sample variance (n - 1 denominator) of a
\* sequence of n >= 1 integers:  sum / n  and
\* (n * sumsq - sum * sum) / (n * (n - 1)),  0 when n = 1.
ArithmeticMean(s) == Num(SeqSum(s), Len(s))
SampleVariance(s) ==
    IF Len(s) = 1 THEN FromInt(0)
    ELSE Num(Len(s) * SeqSumSq(s) - SeqSum(s) * SeqSum(s), Len(s) * (Len(s) - 1))

\* C16: after recording v1..vn for one metric, the baseline's mean is the
\* arithmetic mean of v1..vn and its variance is their sample variance with
\* n - 1 denominator, 0 when n = 1.
C16_WelfordCorrect ==
    \A name \in Metrics :
       samples[name] # <<>> =>
          LET b == BaselineManager_getBaseline(_baselines, _minSamples, name)
          IN  /\ ~b.isNull
              /\ b.sampleCount = Len(samples[name])
              /\ b.mean = ArithmeticMean(samples[name])
              /\ b.variance = SampleVariance(samples[name])

\* 1, 2, 3, 4, 5 were recorded: mean 3 and variance 2.5.
C16_Witness ==
    \E name \in Metrics :
       /\ samples[name] = <<1, 2, 3, 4, 5>>
       /\ BaselineManager_getBaseline(_baselines, _minSamples, name).mean = FromInt(3)
       /\ BaselineManager_getBaseline(_baselines, _minSamples, name).variance = Num(5, 2)

(***************************************************************************)
(* Strategies: properties                                                  *)
(***************************************************************************)
\* The last detect() call was made by `strategy` and got a baseline with a
\* standard deviation other than 0.
DetectedOnUsable(strategy) ==
    /\ lastDetect.strategy = strategy
    /\ ~lastDetect.base.isNull
    /\ lastDetect.base.variance # FromInt(0)

\* |d| / stdDev > k * t for a non-negative t, as d^2 > (k * t)^2 * variance
Exceeds(d, base, k, t) ==
    NumLess(NumMul(Square(NumMul(FromInt(k), t)), base.variance), Square(d))

\* The baseline of the worked examples: mean 100, stdDev 10
MeanHundredSpreadTen(base) ==
    /\ ~base.isNull
    /\ base.mean = FromInt(100)
    /\ base.variance = FromInt(10 * 10)

\* C17: with a ready baseline and stdDev other than 0, ZScoreStrategy.detect
\* returns a spike verdict exactly when |z| > threshold and null otherwise;
\* its severity is critical exactly when |z| > 2 * threshold, else warning.
\* With mean 100, stdDev 10, threshold 2.5: 126 warning, 151 critical, 125
\* no verdict.
C17_ZScoreVerdict ==
    DetectedOnUsable("zscore") =>
       LET d == NumSub(FromInt(lastDetect.metric.value), lastDetect.base.mean)
       IN  /\ ~verdict.isNull <=> Exceeds(d, lastDetect.base, 1, threshold)
           /\ ~verdict.isNull =>
                 /\ verdict.type = "spike"
                 /\ verdict.severity \in {"critical", "warning"}
                 /\ verdict.severity = "critical" <=> Exceeds(d, lastDetect.base, 2, threshold)
           /\ (MeanHundredSpreadTen(lastDetect.base) /\ threshold = Num(5, 2)) =>
                 /\ lastDetect.metric.value = 125 => verdict.isNull
                 /\ lastDetect.metric.value = 126 =>
                       ~verdict.isNull /\ verdict.severity = "warning"
                 /\ lastDetect.metric.value = 151 =>
                       ~verdict.isNull /\ verdict.severity = "critical"

\* Value 126 against mean 100, stdDev 10, threshold 2.5: a warning spike.
C17_Witness ==
    /\ DetectedOnUsable("zscore")
    /\ MeanHundredSpreadTen(lastDetect.base)
    /\ threshold = Num(5, 2)
    /\ lastDetect.metric.value = 126
    /\ ~verdict.isNull
    /\ verdict.type = "spike"
    /\ verdict.severity = "warning"

\* Value 125, exactly at the threshold: no verdict.
C17_WitnessAtThreshold ==
    /\ DetectedOnUsable("zscore")
    /\ MeanHundredSpreadTen(lastDetect.base)
    /\ threshold = Num(5, 2)
    /\ lastDetect.metric.value = 125
    /\ verdict.isNull

\* C18: with a ready baseline and stdDev other than 0, EMAStrategy.detect
\* returns a drift verdict exactly when |value - newEma| / stdDev is
\* strictly above deviationThreshold, critical only when it is strictly
\* above twice the threshold and warning when it equals twice the threshold.
\* With alpha 0.5, mean 100, stdDev 10, threshold 2.5, value 200 and new
\* EMA 150: warning.
C18_EmaVerdict ==
    DetectedOnUsable("ema") =>
       LET newEma == MapGet(_emaValues, lastDetect.metric.name)
           d      == NumSub(FromInt(lastDetect.metric.value), newEma)
       IN  /\ ~verdict.isNull <=> Exceeds(d, lastDetect.base, 1, deviationThreshold)
           /\ ~verdict.isNull =>
                 /\ verdict.type = "drift"
                 /\ verdict.severity \in {"critical", "warning"}
                 /\ verdict.severity = "critical"
                       <=> Exceeds(d, lastDetect.base, 2, deviationThreshold)
           /\ ( /\ MeanHundredSpreadTen(lastDetect.base)
                /\ deviationThreshold = Num(5, 2)
                /\ lastDetect.metric.value = 200
                /\ newEma = FromInt(150) ) =>
                 ~verdict.isNull /\ verdict.severity = "warning"

\* Second call of the worked example: alpha 0.5, value 200 after value 100,
\* new EMA 150, normalized deviation 5 = 2 * 2.5, a warning.
C18_Witness ==
    /\ DetectedOnUsable("ema")
    /\ MeanHundredSpreadTen(lastDetect.base)
    /\ alpha = Num(1, 2)
    /\ deviationThreshold = Num(5, 2)
    /\ nDetect = 2
    /\ lastDetect.metric.value = 200
    /\ MapGet(_emaValues, lastDetect.metric.name) = FromInt(150)
    /\ ~verdict.isNull
    /\ verdict.severity = "warning"

\* A drift verdict above twice the threshold: critical.
C18_WitnessCritical ==
    /\ DetectedOnUsable("ema")
    /\ ~verdict.isNull
    /\ verdict.severity = "critical"

\* This step is a call of EMAStrategy.detect.
EmaDetectStep == nDetect' = nDetect + 1 /\ lastDetect'.strategy = "ema"

\* The baseline a detect call got is one the strategies work with.
Usable(base) == IF base.isNull THEN FALSE ELSE base.variance # FromInt(0)

\* C19: in a call of EMAStrategy.detect that gets a ready baseline with
\* stdDev other than 0, the previous EMA is the baseline mean when no such
\* call was made for the metric before and the stored EMA otherwise, and
\* the EMA stored after the call is alpha * value + (1 - alpha) * previous
\* EMA, whether or not a verdict is returned.
C19_Step ==
    (EmaDetectStep /\ Usable(lastDetect'.base)) =>
       LET name  == lastDetect'.metric.name
           value == FromInt(lastDetect'.metric.value)
           previousEma == IF name \in emaSeen
                          THEN MapGet(_emaValues, name)
                          ELSE lastDetect'.base.mean
       IN  /\ MapHas(_emaValues', name)
           /\ MapGet(_emaValues', name) =
                 NumAdd(NumMul(alpha, value),
                        NumMul(NumSub(FromInt(1), alpha), previousEma))

C19_EmaSeedingAndRecurrence == [][C19_Step]_vars

\* A first call that returned no verdict and stored an EMA between the
\* baseline mean and the sample value.
C19_Witness ==
    /\ DetectedOnUsable("ema")
    /\ nDetect = 1
    /\ verdict.isNull
    /\ lastDetect.metric.name \in emaSeen
    /\ NumLess(lastDetect.base.mean, MapGet(_emaValues, lastDetect.metric.name))
    /\ NumLess(MapGet(_emaValues, lastDetect.metric.name), FromInt(lastDetect.metric.value))

\* A second call for the same metric, continuing from the stored EMA.
C19_WitnessSecond ==
    /\ DetectedOnUsable("ema")
    /\ nDetect = 2
    /\ alpha = Num(1, 4)
    /\ lastDetect.metric.value = 200
    /\ MapGet(_emaValues, lastDetect.metric.name) = Num(575, 4)

\* C20: a call of EMAStrategy.detect that gets no baseline, or a baseline
\* with stdDev 0, returns null and leaves the EMA map as it was.
C20_Step ==
    (EmaDetectStep /\ ~Usable(lastDetect'.base)) =>
       /\ verdict'.isNull
       /\ _emaValues' = _emaValues

C20_EmaUntouchedWhenNotReady == [][C20_Step]_vars

\* A sample far from the mean of a ready baseline with stdDev 0: null and
\* no EMA entry.
C20_Witness ==
    /\ lastDetect.strategy = "ema"
    /\ ~lastDetect.base.isNull
    /\ lastDetect.base.variance = FromInt(0)
    /\ lastDetect.metric.value = 200
    /\ verdict.isNull
    /\ ~MapHas(_emaValues, lastDetect.metric.name)

\* A sample of a metric that is not ready, after the EMA of another metric
\* was stored: null and the map as it was.
C20_WitnessNotReady ==
    /\ lastDetect.strategy = "ema"
    /\ lastDetect.base.isNull
    /\ verdict.isNull
    /\ _emaValues # NewMap
    /\ ~MapHas(_emaValues, lastDetect.metric.name)

\* This step is a call of detect() of either strategy.
DetectStep == nDetect' = nDetect + 1

\* Every value recorded for the metric is the same, and there is one.
ZeroSpread(name) ==
    /\ samples[name] # <<>>
    /\ \A i \in DOMAIN samples[name] : samples[name][i] = samples[name][1]

\* C21: when every value recorded for a metric is the same, detect() of
\* ZScoreStrategy and of EMAStrategy returns null for every sample of that
\* metric, however far from the mean, and stores no EMA: the quotient by
\* stdDev is never formed.
C21_Step ==
    (DetectStep /\ ZeroSpread(lastDetect'.metric.name)) =>
       /\ verdict'.isNull
       /\ _emaValues' = _emaValues
       /\ ~lastDetect'.base.isNull => lastDetect'.base.variance = FromInt(0)

C21_ZeroSpreadGuard == [][C21_Step]_vars

\* ZScoreStrategy.detect on value 200 against a ready baseline of three
\* samples of 90: null.
C21_Witness ==
    /\ lastDetect.strategy = "zscore"
    /\ ZeroSpread(lastDetect.metric.name)
    /\ ~lastDetect.base.isNull
    /\ lastDetect.base.mean = FromInt(90)
    /\ lastDetect.base.sampleCount = 3
    /\ lastDetect.metric.value = 200
    /\ verdict.isNull

\* The same for EMAStrategy.detect.
C21_WitnessEma ==
    /\ lastDetect.strategy = "ema"
    /\ ZeroSpread(lastDetect.metric.name)
    /\ ~lastDetect.base.isNull
    /\ lastDetect.base.mean = FromInt(90)
    /\ lastDetect.metric.value = 200
    /\ verdict.isNull

\* The Map m cut down to the entry of key k.
OnlyMetric(m, k) == IF MapHas(m, k) THEN MapSet(NewMap, k, MapGet(m, k)) ELSE NewMap

\* Maps m and n hold the same for key k.
SameEntry(m, n, k) ==
    /\ MapHas(m, k) <=> MapHas(n, k)
    /\ MapHas(m, k) => MapGet(m, k) = MapGet(n, k)

\* C22: record(a, v) leaves the record of every other metric as it was;
\* EMAStrategy.detect on a sample of metric a leaves the stored EMA of every
\* other metric as it was; and the verdict of either strategy for a sample
\* of metric a is the one it returns when a's record and a's EMA are all
\* there is.
C22_Step ==
    /\ (lastCall'.op = "record" /\ calls' # calls) =>
          \A b \in Metrics :
             calls'[b] = calls[b] => SameEntry(_baselines', _baselines, b)
    /\ DetectStep =>
          LET metric == lastDetect'.metric
          IN  /\ \A b \in Metrics \ {metric.name} : SameEntry(_emaValues', _emaValues, b)
              /\ lastDetect'.strategy = "zscore" =>
                    verdict' = ZScoreStrategy_detect(threshold, metric,
                                   OnlyMetric(_baselines, metric.name), _minSamples)
              /\ lastDetect'.strategy = "ema" =>
                    verdict' = EMAStrategy_detect(alpha, deviationThreshold,
                                   OnlyMetric(_emaValues, metric.name), metric,
                                   OnlyMetric(_baselines, metric.name), _minSamples).returned

C22_PerMetricPartition == [][C22_Step]_vars

\* Both metrics are ready with different records and hold different EMAs,
\* and the last call returned a verdict.
C22_Witness ==
    /\ \A name \in Metrics :
          /\ ~BaselineManager_getBaseline(_baselines, _minSamples, name).isNull
          /\ MapHas(_emaValues, name)
    /\ MapGet(_emaValues, "a") # MapGet(_emaValues, "b")
    /\ lastDetect.strategy = "ema"
    /\ ~verdict.isNull

\* The square of a verdict's score, and of the ratio d / (2 * t) that the
\* last detect() call worked with: d is |z| for zscore and the normalized
\* deviation from the stored EMA for ema.
ScoreSquared == NumDiv(Square(verdict.score.num), verdict.score.sqrtOf)

LastRatioSquared ==
    LET value == FromInt(lastDetect.metric.value)
        from  == IF lastDetect.strategy = "zscore"
                 THEN lastDetect.base.mean
                 ELSE MapGet(_emaValues, lastDetect.metric.name)
        t     == IF lastDetect.strategy = "zscore" THEN threshold ELSE deviationThreshold
    IN  NumDiv(Square(NumSub(value, from)),
               NumMul(Square(NumMul(FromInt(2), t)), lastDetect.base.variance))

\* C23: with a positive threshold, the score of every verdict of
\* ZScoreStrategy.detect and EMAStrategy.detect is min(1, d / (2 * threshold)),
\* lies in [0, 1] and strictly above 0.5, and is 1 exactly when the severity
\* is critical or d = 2 * threshold.
C23_ScoreRange ==
    (~verdict.isNull /\ threshold.n > 0 /\ deviationThreshold.n > 0) =>
       /\ verdict.score.num.n >= 0
       /\ ScoreSquared = MathMin(FromInt(1), LastRatioSquared)
       /\ ~NumLess(FromInt(1), ScoreSquared)
       /\ NumLess(Num(1, 4), ScoreSquared)
       /\ ScoreSquared = FromInt(1)
             <=> (verdict.severity = "critical" \/ LastRatioSquared = FromInt(1))

\* A warning with a score strictly between 0.5 and 1: value 126 against
\* mean 100, stdDev 10, threshold 2.5 scores 0.52.
C23_Witness ==
    /\ ~verdict.isNull
    /\ lastDetect.strategy = "zscore"
    /\ lastDetect.metric.value = 126
    /\ verdict.severity = "warning"
    /\ ScoreSquared = Square(Num(52, 100))

\* A warning that scores 1: d = 2 * threshold.
C23_WitnessAtTwice ==
    /\ ~verdict.isNull
    /\ lastDetect.strategy = "ema"
    /\ verdict.severity = "warning"
    /\ verdict.score = One

\* A critical verdict: d / (2 * threshold) above 1 scores 1.
C23_WitnessCritical ==
    /\ ~verdict.isNull
    /\ verdict.severity = "critical"
    /\ NumLess(FromInt(1), LastRatioSquared)
    /\ verdict.score = One

(***************************************************************************)
(* Anomaly Engine: properties                                              *)
(***************************************************************************)
\* The number of envelopes of `type` among the events emitted so far.
Published(events, type) == Cardinality({i \in DOMAIN events : events[i].type = type})

\* C24: for every sample published on the metric-ingestion channel the
\* engine calls record(name, value) exactly once, ready or not, makes one
\* detection attempt if the metric then has its minimum of samples and none
\* otherwise, and publishes at most one anomaly event, only for a verdict.
C24_Step ==
    Published(emitted', MetricCollected) # Published(emitted, MetricCollected) =>
       /\ Published(emitted', MetricCollected) = Published(emitted, MetricCollected) + 1
       /\ \E name \in Metrics :
             /\ calls' = [calls EXCEPT ![name] = @ + 1]
             /\ Len(samples'[name]) = Len(samples[name]) + 1
             /\ \A other \in Metrics \ {name} : samples'[other] = samples[other]
             /\ MapGet(_baselines', name).count = Len(samples'[name])
             /\ IF Len(samples'[name]) >= _minSamples
                THEN /\ nDetect' = nDetect + 1
                     /\ lastDetect'.metric.name = name
                     /\ lastDetect'.strategy = active
                ELSE /\ nDetect' = nDetect
                     /\ Published(emitted', AnomalyDetected) = Published(emitted, AnomalyDetected)
       /\ Published(emitted', AnomalyDetected) - Published(emitted, AnomalyDetected) \in {0, 1}
       /\ Published(emitted', AnomalyDetected) # Published(emitted, AnomalyDetected) =>
             ~verdict'.isNull

C24_EnginePipeline == [][C24_Step]_vars

\* Samples were recorded while the metric was not ready, without a
\* detection attempt, and a later sample of it was published as an anomaly.
C24_Witness ==
    /\ _minSamples = 3
    /\ nDetect = 1
    /\ Published(emitted, MetricCollected) = 3
    /\ Published(emitted, AnomalyDetected) = 1
    /\ \E name \in Metrics : calls[name] = 3
    /\ ~verdict.isNull

\* A detection attempt that returned no verdict: nothing is published.
C24_WitnessNoVerdict ==
    /\ nDetect >= 1
    /\ Published(emitted, AnomalyDetected) = 0
    /\ verdict.isNull

(***************************************************************************)
(* EventBus: emit ordering                                                 *)
(***************************************************************************)
\* The envelope of the n-th emit call is in the history h.
InHistory(h, events, n) == \E i \in DOMAIN h : h[i] = events[n]

\* C25 as stated, first part: every listener that is running finds the
\* event it is handling in the history.
C25_HandledEventInHistory ==
    \A k \in DOMAIN stack :
       stack[k].kind = "listener" => InHistory(_history, emitted, stack[k].event)

\* An emit call made by this step.
EmitStep == Len(emitted') = Len(emitted) + 1

\* C25, amended: emit appends the envelope to the history before it invokes
\* a listener; the event of every emit call in progress is in the history
\* as long as fewer than 1000 events were emitted after it; and while a
\* nested emit is in progress the emit calls below it invoke no listener:
\* each nested emit returns only after it has passed all its listeners.
C25_Step ==
    /\ EmitStep =>
          /\ _history'[Len(_history')] = emitted'[Len(emitted')]
          /\ Len(stack') > Len(stack) =>
                /\ stack'[Len(stack')].kind = "emit"
                /\ stack'[Len(stack')].event = Len(emitted')
                /\ stack'[Len(stack')].invoked = <<>>
          /\ \A k \in DOMAIN stack : stack'[k] = stack[k]
    /\ \A k \in DOMAIN stack' :
          Len(emitted') - stack'[k].event < _maxHistory =>
             InHistory(_history', emitted', stack'[k].event)
    /\ \A k \in DOMAIN stack :
          (stack[k].kind = "emit" /\ \E j \in DOMAIN stack : j > k /\ stack[j].kind = "emit") =>
             /\ k \in DOMAIN stack'
             /\ stack'[k].invoked = stack[k].invoked
             /\ stack'[k].pos = stack[k].pos
    /\ (Len(stack') < Len(stack) /\ stack[Len(stack)].kind = "emit") =>
          /\ Len(stack') = Len(stack) - 1
          /\ stack[Len(stack)].pos >= Len(_listeners[stack[Len(stack)].type])

C25_EmitOrdering == [][C25_Step]_vars

\* A listener of a nested emit is running inside a listener of an outer
\* emit that has a listener still to invoke, with the history full and
\* both events in it.
C25_Witness ==
    /\ Len(stack) = 4
    /\ stack[1].kind = "emit"
    /\ stack[3].kind = "emit"
    /\ stack[4].kind = "listener"
    /\ stack[1].pos < Len(_listeners[stack[1].type])
    /\ Len(_history) = _maxHistory
    /\ InHistory(_history, emitted, stack[1].event)
    /\ InHistory(_history, emitted, stack[3].event)

\* The event a running listener is handling has been evicted.
C25_WitnessEvicted ==
    \E k \in DOMAIN stack :
       /\ stack[k].kind = "listener"
       /\ ~InHistory(_history, emitted, stack[k].event)

(***************************************************************************)
(* EventBus: at-most-once delivery within one emit                         *)
(***************************************************************************)
\* How many times the emit call of the frame has invoked the listener l.
TimesCalledIn(frame, l) ==
    Cardinality({i \in 1..Len(frame.invoked) : frame.invoked[i].fn = l})

\* The only emit call made so far is in progress and none of the listeners
\* it invoked has thrown: no listener has called emit.
SoleEmitInProgress ==
    /\ Len(emitted) = 1
    /\ stack # <<>>
    /\ stack[1].kind = "emit"
    /\ ~stack[1].threw

\* C26: an emit call whose listeners return and do not emit invokes each
\* listener function at most once, also when listeners subscribe, or
\* unsubscribe and subscribe again, during the dispatch.
C26_AtMostOnceDelivery ==
    SoleEmitInProgress =>
       \A l \in Listeners : TimesCalledIn(stack[1], l) <= 1

(***************************************************************************)
(* EventBus: unsubscribe by function identity                              *)
(***************************************************************************)
\* The closures handed out by on(type, l) calls.
CapabilitiesOf(type, l) == {cap \in unsubs : cap.type = type /\ cap.fn = l}

\* A listener frame pushed by this step: the invocation of a listener.
InvokedByStep ==
    {k \in DOMAIN stack' : k \notin DOMAIN stack /\ stack'[k].kind = "listener"}

\* C27: when on(T, f) was called twice and one of the two closures is
\* invoked, f is in the Set of T no more; as long as on(T, f) is not called
\* again f stays out of the Set and no emit invokes it, although the other
\* closure was never invoked.
C27_Step ==
    /\ \A type \in Types, f \in Funcs :
          (reg[<<type, Fn(f)>>].calls >= 2 /\ reg'[<<type, Fn(f)>>].calls = 0) =>
             ~SetHas(_listeners'[type], Fn(f))
    /\ \A type \in Types, f \in Funcs :
          (reg'[<<type, Fn(f)>>].calls = 0 /\ type \in DOMAIN _listeners') =>
             ~SetHas(_listeners'[type], Fn(f))
    /\ \A k \in InvokedByStep :
          reg[<<stack'[k].type, stack'[k].fn>>].calls > 0

C27_UnsubscribeByIdentity == [][C27_Step]_vars

\* on(T, f) handed out two closures, one call of a closure followed, and an
\* emit(T) made afterwards has finished its loop without invoking f.
C27_Witness ==
    /\ EmitFinishing
    /\ ~Top.unsubbed
    /\ \E f \in Funcs :
          /\ Cardinality(CapabilitiesOf(Top.type, Fn(f))) = 2
          /\ nCalls = 3
          /\ reg[<<Top.type, Fn(f)>>].calls = 0
          /\ \A i \in 1..Len(Top.invoked) : Top.invoked[i].fn # Fn(f)

(***************************************************************************)
(* BaselineManager: the retained window                                    *)
(***************************************************************************)
\* C28: for a metric whose record was not restored, getValues(name) is the
\* last min(n, 500) of the n values recorded, oldest first; it is empty for
\* a metric never recorded and never longer than 500.
C28_RetainedWindow ==
    \A name \in Metrics :
       /\ name \notin restored =>
             BaselineManager_getValues(_baselines, name) =
                LastN(samples[name], Min(calls[name], WindowCapacity))
       /\ calls[name] = 0 => BaselineManager_getValues(_baselines, name) = <<>>
       /\ Len(BaselineManager_getValues(_baselines, name)) <= WindowCapacity

\* More than 500 values were recorded for one metric and none for the
\* other; the window begins and ends with values that differ from the
\* first value recorded, which it no longer holds in first place.
C28_Witness ==
    \E name \in Metrics, other \in Metrics :
       /\ calls[name] > WindowCapacity
       /\ calls[other] = 0
       /\ name \notin restored
       /\ Len(BaselineManager_getValues(_baselines, name)) = WindowCapacity
       /\ BaselineManager_getValues(_baselines, name)[1] # samples[name][1]
       /\ BaselineManager_getValues(_baselines, name)[WindowCapacity] #
             BaselineManager_getValues(_baselines, name)[1]

(***************************************************************************)
(* BaselineManager: percentiles                                            *)
(***************************************************************************)
PercentileRanks == {50, 90, 95, 99}

\* The field of the snapshot that holds the percentile of rank k.
PercentileOf(base, k) ==
    IF k = 50 THEN base.p50
    ELSE IF k = 90 THEN base.p90
    ELSE IF k = 95 THEN base.p95
    ELSE base.p99

\* The values record() has retained for the metric: the last 500 recorded,
\* or what getValues returns when restore() wrote the record.
RetainedWindow(name) ==
    IF name \in restored
    THEN BaselineManager_getValues(_baselines, name)
    ELSE LastN(samples[name], Min(Len(samples[name]), WindowCapacity))

\* v is the element at index idx (from 0) of w sorted ascending.
AtSortedIndex(w, v, idx) ==
    /\ \E i \in DOMAIN w : w[i] = v
    /\ Cardinality({i \in DOMAIN w : w[i] < v}) <= idx
    /\ idx < Cardinality({i \in DOMAIN w : w[i] <= v})

\* C29: for a ready metric with n >= 1 retained values each of p50, p90,
\* p95 and p99 is the element at index floor(n * k / 100), an index within
\* 0..n-1, of the retained window sorted ascending, and lies between min
\* and max; values no longer retained play no part.
C29_Percentiles ==
    \A name \in Metrics :
       LET base == BaselineManager_getBaseline(_baselines, _minSamples, name)
           w    == RetainedWindow(name)
           n    == Len(w)
       IN  (~base.isNull /\ n >= 1) =>
              \A k \in PercentileRanks :
                 /\ (n * k) \div 100 \in 0..(n - 1)
                 /\ \E i \in DOMAIN w :
                       /\ PercentileOf(base, k) = FromInt(w[i])
                       /\ AtSortedIndex(w, w[i], (n * k) \div 100)
                 /\ ~NumLess(PercentileOf(base, k), base.min)
                 /\ ~NumLess(base.max, PercentileOf(base, k))

\* The greatest value recorded has left a full window, and every
\* percentile is below it.
C29_Witness ==
    \E name \in Metrics :
       LET base == BaselineManager_getBaseline(_baselines, _minSamples, name)
       IN  /\ calls[name] > WindowCapacity
           /\ name \notin restored
           /\ ~base.isNull
           /\ base.max = FromInt(samples[name][1])
           /\ \A k \in PercentileRanks : NumLess(PercentileOf(base, k), base.max)

\* Two different values are retained and the median is the greater one.
C29_WitnessPair ==
    \E name \in Metrics :
       LET base == BaselineManager_getBaseline(_baselines, _minSamples, name)
       IN  /\ calls[name] = 2
           /\ ~base.isNull
           /\ NumLess(base.min, base.max)
           /\ base.p50 = base.max

(***************************************************************************)
(* BaselineManager: reads                                                  *)
(***************************************************************************)
\* The step is a call of isReady, getBaseline, getValues or serialize, or
\* of ZScoreStrategy.detect, which is a call of getBaseline.
ReadStep == lastCall'.op \in Reads \cup {"serialize"}

\* C30: isReady, getBaseline, getValues, serialize and ZScoreStrategy.detect
\* leave every record as it was: the same metrics have records, with the
\* same count, mean, sumSqDev, min, max and retained values in the same
\* order, so that every snapshot and every verdict is what it would have
\* been without the call.
C30_Step ==
    ReadStep =>
       \A name \in Metrics :
          /\ MapHas(_baselines', name) = MapHas(_baselines, name)
          /\ MapHas(_baselines, name) =>
                /\ MapGet(_baselines', name).count = MapGet(_baselines, name).count
                /\ MapGet(_baselines', name).mean = MapGet(_baselines, name).mean
                /\ MapGet(_baselines', name).m2 = MapGet(_baselines, name).m2
                /\ MapGet(_baselines', name).min = MapGet(_baselines, name).min
                /\ MapGet(_baselines', name).max = MapGet(_baselines, name).max
          /\ BaselineManager_getValues(_baselines', name) =
                BaselineManager_getValues(_baselines, name)
          /\ BaselineManager_getBaseline(_baselines', _minSamples', name) =
                BaselineManager_getBaseline(_baselines, _minSamples, name)
          /\ \A value \in FarValues :
                ZScoreStrategy_detect(threshold', [name |-> name, value |-> value],
                                      _baselines', _minSamples') =
                ZScoreStrategy_detect(threshold, [name |-> name, value |-> value],
                                      _baselines, _minSamples)

C30_ReadsHaveNoEffect == [][C30_Step]_vars

\* detect has just returned a verdict for a metric whose retained values
\* are not in ascending order, after serialize was called.
C30_Witness ==
    /\ lastCall.op = "getBaseline"
    /\ nDetect >= 1
    /\ ~verdict.isNull
    /\ storage # <<>>
    /\ lastDetect.metric.name \in Metrics
    /\ Len(BaselineManager_getValues(_baselines, lastDetect.metric.name)) >= 2
    /\ BaselineManager_getValues(_baselines, lastDetect.metric.name)[1] >
          BaselineManager_getValues(_baselines, lastDetect.metric.name)[2]

(***************************************************************************)
(* BaselineManager: restore and further recording                          *)
(***************************************************************************)
\* The aggregate fields of the record of a metric in a Map, or none.
Aggregates(bl, name) ==
    IF MapHas(bl, name)
    THEN <<MapGet(bl, name).count, MapGet(bl, name).mean, MapGet(bl, name).m2,
           MapGet(bl, name).min, MapGet(bl, name).max>>
    ELSE <<>>

\* C31: when a fresh manager was restored from the string a manager
\* serialized and the same further values were recorded on both, every
\* metric has the same count, mean, sumSqDev, min and max in both.
C31_RestoreCommutesWithRecord ==
    freshFrom # <<>> =>
       \A name \in Metrics : Aggregates(fresh, name) = Aggregates(_baselines, name)

\* Two further values were recorded on both managers for a metric that had
\* two values at the handover, and the values seen are not all equal.
C31_Witness ==
    /\ freshFrom # <<>>
    /\ \E name \in Metrics :
          /\ MapHas(fresh, name)
          /\ MapGet(fresh, name).count = 4
          /\ Len(BaselineManager_getValues(fresh, name)) = 2
          /\ NumLess(MapGet(fresh, name).min, MapGet(fresh, name).max)
          /\ NumLess(FromInt(0), MapGet(fresh, name).m2)

\* A metric first recorded after the handover has a record in both.
C31_WitnessNewMetric ==
    /\ freshFrom # <<>>
    /\ \E name \in Metrics, other \in Metrics :
          /\ MapHas(fresh, name)
          /\ MapHas(fresh, other)
          /\ Len(BaselineManager_getValues(fresh, name)) = MapGet(fresh, name).count
          /\ Len(BaselineManager_getValues(fresh, other)) < MapGet(fresh, other).count

(***************************************************************************)
(* BaselineManager: readiness and snapshot                                 *)
(***************************************************************************)
\* C32: for every metric name, recorded, restored or never seen, and every
\* learning period, getBaseline(name) is a snapshot exactly when
\* isReady(name) is true.
C32_ReadyIffSnapshot ==
    \A name \in Metrics :
       ~BaselineManager_getBaseline(_baselines, _minSamples, name).isNull
          <=> BaselineManager_isReady(_baselines, _minSamples, name)

(***************************************************************************)
(* Collectors: stop                                                        *)
(***************************************************************************)
\* C33: once stop() has returned on a collector that was started, the
\* collector publishes no event on the bus until start() is called again.
C33_StopIsEffective ==
    \A c \in Collectors : afterStop[c] = 0

====
